------------------------------ MODULE Spec2Model ------------------------------
(***************************************************************************)
(* A model of the chat-export attendance pipeline:                         *)
(*   WhatsAppParser.parseFile        (message assembly),                   *)
(*   MessageFilter.processMessages   (event extraction, day filter,        *)
(*                                    duplicate removal, ordering),        *)
(*   PlayerStatsAnalyzer             (name normalisation, aggregation),    *)
(*   groupSimilarPlayers/consolidateGroup (similarity clustering).         *)
(*                                                                         *)
(* A text is a sequence of characters; a character is a one-letter string, *)
(* or a named one: "NL" (line feed), "TAB", "LRM" (U+200E, the invisible   *)
(* left-to-right mark), "ACUTE" and "TILDE" (U+0301 and U+0303, the       *)
(* combining accents), "uD83D" and its like (UTF-16 code units of emojis). *)
(***************************************************************************)
EXTENDS Integers, Sequences, FiniteSets, TLC

VARIABLES
    \* WhatsAppParser.parseFile
    lines, lineIx, currentMessage, parsedMessages, pcParse,
    \* MessageFilter.processMessages
    messages, msgIx, events, eventMap, evIx, uniqueEvents, clock, observed,
    pcFilter,
    \* PlayerStatsAnalyzer.analyzePlayerStats
    statEvents, statEv, statPl, playerMap, rankings, pcStats,
    \* processPlayersData (similarity clustering)
    script, simLevel, players, grpIndex, grpOther, group, groups,
    processed, consolidated, finalPlayers, pcGroup,
    \* MessageFilter.parseTimestamp, called on its own
    tsInput, tsOutput, pcStamp,
    \* PlayerStatsAnalyzer.cleanPlayerName and normalizePlayerName, called on
    \* their own
    nameInput, nameCleaned, nameOutput, pcName,
    \* the loop over the lines of a message in parseEventFromMessage and in
    \* parsePlayerList
    routine, msgLines, lineNo, extracted, pcExtract

varsParse  == <<lines, lineIx, currentMessage, parsedMessages, pcParse>>
varsFilter == <<messages, msgIx, events, eventMap, evIx, uniqueEvents, clock,
                observed, pcFilter>>
varsStats  == <<statEvents, statEv, statPl, playerMap, rankings, pcStats>>
varsGroup  == <<script, simLevel, players, grpIndex, grpOther, group, groups,
                processed, consolidated, finalPlayers, pcGroup>>
varsStamp  == <<tsInput, tsOutput, pcStamp>>
varsName   == <<nameInput, nameCleaned, nameOutput, pcName>>
varsExtract == <<routine, msgLines, lineNo, extracted, pcExtract>>
vars ==
    <<varsParse, varsFilter, varsStats, varsGroup, varsStamp, varsName,
      varsExtract>>

-----------------------------------------------------------------------------
(* Characters and the String methods the program uses                      *)

Digits == <<"0","1","2","3","4","5","6","7","8","9">>

IsDigit(c) == \E i \in 1..10 : Digits[i] = c

DigitVal(c) == (CHOOSE i \in 1..10 : Digits[i] = c) - 1

\* JavaScript's \s and the characters String.prototype.trim removes
IsSpace(c) == c \in {" ", "TAB", "NL", "CR"}

LowerLetters == <<"a","b","c","d","e","f","g","h","i","j","k","l","m","n","o",
                  "p","q","r","s","t","u","v","w","x","y","z","é","í","á","ñ">>
UpperLetters == <<"A","B","C","D","E","F","G","H","I","J","K","L","M","N","O",
                  "P","Q","R","S","T","U","V","W","X","Y","Z","É","Í","Á","Ñ">>

NLetters == Len(LowerLetters)

Place(letters, c) == CHOOSE i \in 1..NLetters : letters[i] = c

LowerOf == [c \in {UpperLetters[i] : i \in 1..NLetters} |->
               LowerLetters[Place(UpperLetters, c)]]

UpperOf == [c \in {LowerLetters[i] : i \in 1..NLetters} |->
               UpperLetters[Place(LowerLetters, c)]]

LowerChar(c) == IF c \in DOMAIN LowerOf THEN LowerOf[c] ELSE c

UpperChar(c) == IF c \in DOMAIN UpperOf THEN UpperOf[c] ELSE c

\* the regular expression class \w: ASCII letters, digits and underscore
IsWordChar(c) ==
    \/ IsDigit(c)
    \/ c = "_"
    \/ \E i \in 1..26 : LowerLetters[i] = c \/ UpperLetters[i] = c

\* (SubSeq makes the result a tuple, computed once)
toLowerCase(s) == SubSeq([i \in 1..Len(s) |-> LowerChar(s[i])], 1, Len(s))

\* s.slice(i - 1): the text from position i (1-based) on
From(s, i) == IF i > Len(s) THEN <<>> ELSE SubSeq(s, i, Len(s))

RECURSIVE trimStart(_)
trimStart(s) ==
    IF s # <<>> /\ IsSpace(Head(s)) THEN trimStart(Tail(s)) ELSE s

RECURSIVE trimEnd(_)
trimEnd(s) ==
    IF s # <<>> /\ IsSpace(s[Len(s)])
    THEN trimEnd(SubSeq(s, 1, Len(s) - 1))
    ELSE s

trim(s) == trimEnd(trimStart(s))

startsWith(s, p) == Len(s) >= Len(p) /\ SubSeq(s, 1, Len(p)) = p

MatchesAt(s, p, i) == i + Len(p) - 1 <= Len(s) /\ SubSeq(s, i, i + Len(p) - 1) = p

includes(s, p) == \E i \in 1..(Len(s) + 1) : MatchesAt(s, p, i)

\* s.replace(p, '') for a literal or case-folded pattern p: the first
\* occurrence, compared after toLowerCase when ci
ReplaceFirst(s, p, ci) ==
    LET t == IF ci THEN toLowerCase(s) ELSE s
        hits == {i \in 1..(Len(s) + 1) : MatchesAt(t, p, i)}
    IN  IF hits = {} THEN s
        ELSE LET i == CHOOSE k \in hits : \A j \in hits : k <= j
             IN  SubSeq(s, 1, i - 1) \o From(s, i + Len(p))

\* s.replace(/[...]/g, ''): every character of the class removed
RECURSIVE RemoveChars(_, _)
RemoveChars(s, class) ==
    IF s = <<>> THEN <<>>
    ELSE IF Head(s) \in class THEN RemoveChars(Tail(s), class)
    ELSE <<Head(s)>> \o RemoveChars(Tail(s), class)

\* s.split(sep) for a one-character separator
RECURSIVE split(_, _)
split(s, sep) ==
    IF \A i \in 1..Len(s) : s[i] # sep THEN <<s>>
    ELSE LET i == CHOOSE k \in 1..Len(s) :
                      s[k] = sep /\ \A j \in 1..(k - 1) : s[j] # sep
         IN  <<SubSeq(s, 1, i - 1)>> \o split(From(s, i + 1), sep)

\* parts.join(sep)
RECURSIVE join(_, _)
join(parts, sep) ==
    IF parts = <<>> THEN <<>>
    ELSE IF Len(parts) = 1 THEN parts[1]
    ELSE parts[1] \o sep \o join(Tail(parts), sep)

\* s.replace(/\s+/g, ' ')
RECURSIVE CollapseSpaces(_)
CollapseSpaces(s) ==
    IF s = <<>> THEN <<>>
    ELSE IF IsSpace(Head(s))
         THEN <<" ">> \o CollapseSpaces(trimStart(s))
         ELSE <<Head(s)>> \o CollapseSpaces(Tail(s))

\* the length of the run of digits that starts at position i
RECURSIVE DigitRun(_, _)
DigitRun(s, i) ==
    IF i <= Len(s) /\ IsDigit(s[i]) THEN 1 + DigitRun(s, i + 1) ELSE 0

\* the first position from i on that holds no white space
RECURSIVE SkipSpaces(_, _)
SkipSpaces(s, i) ==
    IF i <= Len(s) /\ IsSpace(s[i]) THEN SkipSpaces(s, i + 1) ELSE i

\* Number(s) of a text of decimal digits
RECURSIVE Number(_)
Number(s) ==
    IF s = <<>> THEN 0
    ELSE 10 * Number(SubSeq(s, 1, Len(s) - 1)) + DigitVal(s[Len(s)])

-----------------------------------------------------------------------------
(* MessageFilter: timestamps                                               *)

\* timestamp.replace(/[LRM]/g, '').trim()
cleanTimestamp(timestamp) == trim(RemoveChars(timestamp, {"LRM"}))

\* (\d{1,2}\/\d{1,2}\/\d{2,4}) at the start of s: the position after it, 0 if
\* s does not start with a date
DateEndYear(i3, n3) == IF n3 \in 2..4 THEN i3 + n3 ELSE 0

DateEndMonth(s, i2, n2) ==
    IF n2 \in 1..2 /\ MatchesAt(s, <<"/">>, i2 + n2)
    THEN DateEndYear(i2 + n2 + 1, DigitRun(s, i2 + n2 + 1))
    ELSE 0

DateEndDay(s, n1) ==
    IF n1 \in 1..2 /\ MatchesAt(s, <<"/">>, n1 + 1)
    THEN DateEndMonth(s, n1 + 2, DigitRun(s, n1 + 2))
    ELSE 0

DateEnd(s) == DateEndDay(s, DigitRun(s, 1))

\* (\d{1,2}:\d{2}:\d{2}) or (\d{1,2}:\d{2}) whose first colon is at c: the
\* position after it, 0 if there is none
TimeEndAt(s, c, withSeconds) ==
    IF /\ MatchesAt(s, <<":">>, c)
       /\ DigitRun(s, c + 1) >= 2
       /\ \/ ~withSeconds
          \/ MatchesAt(s, <<":">>, c + 3) /\ DigitRun(s, c + 4) >= 2
    THEN IF withSeconds THEN c + 6 ELSE c + 3
    ELSE 0

TimeEnd(s, i, withSeconds) ==
    IF DigitRun(s, i) \in 1..2
    THEN TimeEndAt(s, i + DigitRun(s, i), withSeconds)
    ELSE 0

\* m\.?$ at position k, in either case
PeriodEndAt(s, k) ==
    /\ k <= Len(s) /\ LowerChar(s[k]) = "m"
    /\ \/ k = Len(s)
       \/ k + 1 = Len(s) /\ s[k + 1] = "."

\* ([ap]\.?\s*m\.?)$ at position i, letters in either case
PeriodAt(s, i) ==
    /\ i <= Len(s) /\ LowerChar(s[i]) \in {"a", "p"}
    /\ PeriodEndAt(s, SkipSpaces(s, IF MatchesAt(s, <<".">>, i + 1)
                                    THEN i + 2 ELSE i + 1))

NoMatch ==
    [matched |-> FALSE, datePart |-> <<>>, timePart |-> <<>>, period |-> <<>>]

\* the capture groups: the date ends before d, the time is s[t0..e-1], the
\* period starts at p
Groups(s, d, t0, e, p) ==
    [matched |-> TRUE, datePart |-> SubSeq(s, 1, d - 1),
     timePart |-> SubSeq(s, t0, e - 1), period |-> From(s, p)]

\* the formats with a time, tried in order: with seconds and AM/PM, without
\* seconds and with AM/PM, with seconds and without AM/PM
MatchTime(s, d, t0, e1, e2) ==
    IF e1 > 0 /\ PeriodAt(s, SkipSpaces(s, e1))
    THEN Groups(s, d, t0, e1, SkipSpaces(s, e1))
    ELSE IF e2 > 0 /\ PeriodAt(s, SkipSpaces(s, e2))
    THEN Groups(s, d, t0, e2, SkipSpaces(s, e2))
    ELSE IF e1 > 0 /\ e1 = Len(s) + 1
    THEN Groups(s, d, t0, e1, e1)
    ELSE NoMatch

MatchAfterComma(s, d, t0) ==
    MatchTime(s, d, t0, TimeEnd(s, t0, TRUE), TimeEnd(s, t0, FALSE))

\* the four formats of parseTimestamp: the capture groups of the first one
\* that matches (an absent group is the empty text); d is where the date ends
MatchAfterDate(s, d) ==
    IF d = 0 THEN NoMatch
    ELSE IF MatchesAt(s, <<",">>, d)
    THEN MatchAfterComma(s, d, SkipSpaces(s, d + 1))
    ELSE IF d = Len(s) + 1
    THEN [matched |-> TRUE, datePart |-> s, timePart |-> <<>>,
          period |-> <<>>]
    ELSE NoMatch

MatchFormats(s) == MatchAfterDate(s, DateEnd(s))

\* days from 1970-01-01 to the first day of month m (1..12) of year y
DaysFromCivil(y, m) ==
    LET yy  == IF m <= 2 THEN y - 1 ELSE y
        era == yy \div 400
        yoe == yy - era * 400
        mp  == IF m > 2 THEN m - 3 ELSE m + 9
        doy == (153 * mp + 2) \div 5
        doe == yoe * 365 + yoe \div 4 - yoe \div 100 + doy
    IN  era * 146097 + doe - 719468

\* new Date(year, monthIndex, day, hours, minutes, seconds).getTime(), in
\* seconds from 2000-01-01 (day 10957) on: fields out of range carry over,
\* as the Date constructor does
DateValue(year, monthIndex, day, hours, minutes, seconds) ==
    LET ym == year + (monthIndex \div 12)
        mn == monthIndex % 12
        dn == DaysFromCivil(ym, mn + 1) + day - 1
    IN  (dn - 10957) * 86400 + hours * 3600 + minutes * 60 + seconds

\* getHours() of new Date(year, monthIndex, day, hours, minutes, seconds):
\* seconds carry into minutes, minutes into hours, hours into days
DateHours_AsPassed(hours, minutes, seconds) == hours

DateHours(hours, minutes, seconds) ==
    ((hours * 60 + minutes + seconds \div 60) \div 60) % 24

\* the hour after the AM/PM adjustment
AdjustHours_Always(hours, period) ==
    IF period = <<>> THEN hours
    ELSE IF includes(toLowerCase(period), <<"p">>)
    THEN hours + 12
    ELSE IF includes(toLowerCase(period), <<"a">>) /\ hours = 12
    THEN 0
    ELSE hours

AdjustHours(hours, period) ==
    IF period = <<>> THEN hours
    ELSE IF includes(toLowerCase(period), <<"p">>) /\ hours # 12
    THEN hours + 12
    ELSE IF includes(toLowerCase(period), <<"a">>) /\ hours = 12
    THEN 0
    ELSE hours

DateFields_MonthFirst(day, month, fullYear, hours, minutes, seconds) ==
    [matched |-> TRUE, year |-> fullYear, month |-> day, day |-> month,
     hours |-> hours, minutes |-> minutes, seconds |-> seconds,
     time |-> DateValue(fullYear, day - 1, month, hours, minutes, seconds)]

\* the Date that parseTimestamp builds
DateFields(day, month, fullYear, hours, minutes, seconds) ==
    [matched |-> TRUE, year |-> fullYear, month |-> month, day |-> day,
     hours |-> hours, minutes |-> minutes, seconds |-> seconds,
     time |-> DateValue(fullYear, month - 1, day, hours, minutes, seconds)]

\* year < 100 ? 2000 + year : year
FullYear(year) == IF year < 100 THEN 2000 + year ELSE year

\* dmy and tc are datePart.split('/') and timePart.split(':'), tc empty when
\* there is no time part
FieldsOfParts(dmy, tc, period) ==
    DateFields(Number(dmy[1]), Number(dmy[2]), FullYear(Number(dmy[3])),
               IF tc = <<>> THEN 0 ELSE AdjustHours(Number(tc[1]), period),
               IF Len(tc) >= 2 THEN Number(tc[2]) ELSE 0,
               IF Len(tc) >= 3 THEN Number(tc[3]) ELSE 0)

FieldsOfMatch(m) ==
    IF ~m.matched THEN [matched |-> FALSE]
    ELSE FieldsOfParts(split(m.datePart, "/"),
                       IF m.timePart = <<>> THEN <<>>
                       ELSE split(m.timePart, ":"),
                       m.period)

\* parseTimestamp up to its fallback: matched = FALSE stands for the
\* branch that returns new Date()
parseTimestampFields(timestamp) ==
    FieldsOfMatch(MatchFormats(cleanTimestamp(timestamp)))

\* the value of a parsed date, now being what new Date() returns
TimeOf_Unset(fields, now) == IF fields.matched THEN fields.time ELSE 0

TimeOf(fields, now) == IF fields.matched THEN fields.time ELSE now

\* parseTimestamp(timestamp), now being what new Date() returns if called
parseTimestamp(timestamp, now) ==
    TimeOf(parseTimestampFields(timestamp), now)

Parses(timestamp) == parseTimestampFields(timestamp).matched

extractDateFromTimestamp(timestamp) ==
    trim(split(cleanTimestamp(timestamp), ",")[1])

-----------------------------------------------------------------------------
(* MessageFilter: the day filter and event extraction                      *)

allowedDays == {<<"v","i","e","r","n","e","s">>, <<"v","i","e","n","e","s">>, <<"m","i","é","r","c","o","l","e","s">>, <<"m","i","e","r","c","o","l","e","s">>}

\* dayMappings[normalized] || normalized
MappedDay(normalized) ==
    IF normalized = <<"v","i","e","n","e","s">> THEN <<"v","i","e","r","n","e","s">>
    ELSE IF normalized = <<"v","i","e","r","n","e","s">> THEN <<"v","i","e","r","n","e","s">>
    ELSE IF normalized = <<"m","i","e","r","c","o","l","e","s">> THEN <<"m","i","é","r","c","o","l","e","s">>
    ELSE IF normalized = <<"m","i","é","r","c","o","l","e","s">> THEN <<"m","i","é","r","c","o","l","e","s">>
    ELSE normalized

normalizeDayName(day) == MappedDay(trim(toLowerCase(day)))

isAllowedDay_Exact(day) == day \in allowedDays

isAllowedDay(day) ==
    \E allowedDay \in allowedDays :
        toLowerCase(allowedDay) = trim(toLowerCase(day))

\* trimmedLine.match(/^\d+\.\s*-?\s*(.+)/): the captured text, empty if the
\* line does not match (the optional hyphen is given back when nothing
\* follows it); j is where the text after the ordinal and the spaces starts
CaptureFrom(trimmedLine, j, k) ==
    IF k <= Len(trimmedLine) THEN From(trimmedLine, k)
    ELSE From(trimmedLine, j)

CaptureAfterOrdinal(trimmedLine, j) ==
    CaptureFrom(trimmedLine, j,
                IF MatchesAt(trimmedLine, <<"-">>, j)
                THEN SkipSpaces(trimmedLine, j + 1) ELSE j)

PlayerCapture(trimmedLine) ==
    CaptureAfterOrdinal(trimmedLine,
        SkipSpaces(trimmedLine, DigitRun(trimmedLine, 1) + 2))

\* the ">" that ends an annotation opened at i: the first one from i + 2 on,
\* with at least one character before it
AnnotationEnds(s, i) ==
    {e \in (i + 3)..Len(s) :
        s[e] = ">" /\ \A q \in (i + 2)..(e - 1) : s[q] # ">"}

AnnotationStarts(s) ==
    {i \in 1..Len(s) :
        MatchesAt(s, <<"LRM", "<">>, i) /\ AnnotationEnds(s, i) # {}}

Least(S) == CHOOSE x \in S : \A y \in S : x <= y

CutOut(s, i, e) == SubSeq(s, 1, i - 1) \o From(s, e + 1)

\* playerName.replace(/LRM<[^>]+>/, ''): the first annotation removed
StripEdited(s) ==
    IF AnnotationStarts(s) = {} THEN s
    ELSE CutOut(s, Least(AnnotationStarts(s)),
                Least(AnnotationEnds(s, Least(AnnotationStarts(s)))))

\* a numbered line: the player it names is added, unless empty or "-"
PushPlayer(acc, playerName) ==
    IF playerName # <<>> /\ playerName # <<"-">>
    THEN [acc EXCEPT !.players = Append(@, playerName)]
    ELSE acc

ClassifyLine_LabelsFirst(acc, trimmedLine, lower) ==
    IF startsWith(lower, <<"d","í","a",":">>)
    THEN [acc EXCEPT !.dayOfWeek =
                        trim(ReplaceFirst(trimmedLine, <<"d","í","a",":">>, TRUE))]
    ELSE IF startsWith(lower, <<"h","o","r","a",":">>)
    THEN [acc EXCEPT !.time =
                        trim(ReplaceFirst(trimmedLine, <<"h","o","r","a",":">>, TRUE))]
    ELSE IF startsWith(lower, <<"l","u","g","a","r",":">>)
    THEN [acc EXCEPT !.location =
                        trim(ReplaceFirst(trimmedLine, <<"l","u","g","a","r",":">>, TRUE))]
    ELSE IF includes(lower, <<"p","i","c","h","a","n","g","a">>) \/ includes(lower, <<"i","p","i">>)
    THEN [acc EXCEPT !.eventName = trimmedLine]
    ELSE IF /\ DigitRun(trimmedLine, 1) >= 1
            /\ MatchesAt(trimmedLine, <<".">>, DigitRun(trimmedLine, 1) + 1)
    THEN PushPlayer(acc, trim(StripEdited(trim(PlayerCapture(trimmedLine)))))
    ELSE acc

\* one turn of the loop over the lines of a message, for a line that is
\* not empty; lower is the line in lower case
ClassifyLine(acc, trimmedLine, lower) ==
    IF includes(lower, <<"p","i","c","h","a","n","g","a">>) \/ includes(lower, <<"i","p","i">>)
    THEN [acc EXCEPT !.eventName = trimmedLine]
    ELSE IF startsWith(lower, <<"d","í","a",":">>)
    THEN [acc EXCEPT !.dayOfWeek =
                        trim(ReplaceFirst(trimmedLine, <<"d","í","a",":">>, TRUE))]
    ELSE IF startsWith(lower, <<"h","o","r","a",":">>)
    THEN [acc EXCEPT !.time =
                        trim(ReplaceFirst(trimmedLine, <<"h","o","r","a",":">>, TRUE))]
    ELSE IF startsWith(lower, <<"l","u","g","a","r",":">>)
    THEN [acc EXCEPT !.location =
                        trim(ReplaceFirst(trimmedLine, <<"l","u","g","a","r",":">>, TRUE))]
    ELSE IF /\ DigitRun(trimmedLine, 1) >= 1
            /\ MatchesAt(trimmedLine, <<".">>, DigitRun(trimmedLine, 1) + 1)
    THEN PushPlayer(acc, trim(StripEdited(trim(PlayerCapture(trimmedLine)))))
    ELSE acc

ExtractTrimmed(acc, trimmedLine) ==
    IF trimmedLine = <<>> THEN acc
    ELSE ClassifyLine(acc, trimmedLine, toLowerCase(trimmedLine))

ExtractLine(acc, line) == ExtractTrimmed(acc, trim(line))

RECURSIVE ExtractLines(_, _)
ExtractLines(acc, ls) ==
    IF ls = <<>> THEN acc
    ELSE ExtractLines(ExtractLine(acc, Head(ls)), Tail(ls))

NoEvent == [none |-> TRUE]

\* the event built from the fields found, null on a day that is not allowed
EventOf(acc, message, origin) ==
    IF ~isAllowedDay(acc.dayOfWeek) THEN NoEvent
    ELSE [eventName |-> acc.eventName,
          eventDate |-> extractDateFromTimestamp(message.timestamp),
          dayOfWeek |-> normalizeDayName(acc.dayOfWeek),
          time |-> acc.time,
          location |-> acc.location,
          players |-> acc.players,
          totalPlayers |-> Len(acc.players),
          messageTimestamp |-> message.timestamp,
          sender |-> message.sender,
          originalMessage |-> origin]

\* parseEventFromMessage(message); origin is the message's place in the
\* input, standing for the reference kept in originalMessage
parseEventFromMessage(message, origin) ==
    EventOf(ExtractLines([eventName |-> <<>>, dayOfWeek |-> <<>>,
                          time |-> <<>>, location |-> <<>>, players |-> <<>>],
                         split(message.content, "NL")),
            message, origin)

-----------------------------------------------------------------------------
(* MessageFilter.removeDuplicates and processMessages                      *)

\* a Map as the sequence of its entries, in insertion order
MapIndex(map, key) ==
    IF \E i \in 1..Len(map) : map[i].key = key
    THEN CHOOSE i \in 1..Len(map) : map[i].key = key
    ELSE 0

MapValues(map) == [i \in 1..Len(map) |-> map[i].value]

\* `${event.dayOfWeek}_${event.eventDate}`
DuplicateKey(event) == event.dayOfWeek \o <<"_">> \o event.eventDate

IsMoreRecent_Differs(currentTime, existingTime) == currentTime /= existingTime

\* currentTime > existingTime
IsMoreRecent(currentTime, existingTime) == currentTime > existingTime

\* the body of the loop of removeDuplicates for one event, given what the
\* two calls of parseTimestamp return; the Map holds references to events
\* (their places in the events array)
removeDuplicatesStep(map, evs, ix, currentTime, existingTime) ==
    LET key == DuplicateKey(evs[ix])
        at == MapIndex(map, key)
    IN  IF at = 0 THEN Append(map, [key |-> key, value |-> ix])
        ELSE IF IsMoreRecent(currentTime, existingTime)
        THEN [map EXCEPT ![at].value = ix]
        ELSE map

\* Array.prototype.sort with the comparator dateA.getTime() - dateB.getTime():
\* a stable sort, ascending, of events paired with their parsed dates
RECURSIVE InsertByTime_Strict(_, _)
InsertByTime_Strict(sorted, x) ==
    IF sorted = <<>> THEN <<x>>
    ELSE IF sorted[Len(sorted)].at < x.at THEN Append(sorted, x)
    ELSE Append(InsertByTime_Strict(SubSeq(sorted, 1, Len(sorted) - 1), x),
                sorted[Len(sorted)])

RECURSIVE InsertByTime(_, _)
InsertByTime(sorted, x) ==
    IF sorted = <<>> THEN <<x>>
    ELSE IF sorted[Len(sorted)].at <= x.at THEN Append(sorted, x)
    ELSE Append(InsertByTime(SubSeq(sorted, 1, Len(sorted) - 1), x),
                sorted[Len(sorted)])

RECURSIVE SortByTime(_)
SortByTime(xs) ==
    IF xs = <<>> THEN <<>>
    ELSE InsertByTime(SortByTime(SubSeq(xs, 1, Len(xs) - 1)), xs[Len(xs)])

\* the system clock: t is its time (seconds), ticks how far it has advanced
\* since the run began
MaxTicks == 2

ClockReadings(c) ==
    {[t |-> c.t + d, ticks |-> c.ticks + d] :
        d \in 0..(IF c.ticks < MaxTicks THEN 1 ELSE 0)}

FilterParse ==
    /\ pcFilter = "parse"
    /\ msgIx <= Len(messages)
    /\ LET event == parseEventFromMessage(messages[msgIx], msgIx)
       IN  events' = IF event = NoEvent THEN events ELSE Append(events, event)
    /\ msgIx' = msgIx + 1
    /\ UNCHANGED <<messages, eventMap, evIx, uniqueEvents, clock, observed,
                   pcFilter>>
    /\ UNCHANGED <<varsParse, varsStats, varsGroup, varsStamp, varsName,
                   varsExtract>>

FilterParseEnd ==
    /\ pcFilter = "parse"
    /\ msgIx > Len(messages)
    /\ pcFilter' = "dedup"
    /\ UNCHANGED <<messages, msgIx, events, eventMap, evIx, uniqueEvents,
                   clock, observed>>
    /\ UNCHANGED <<varsParse, varsStats, varsGroup, varsStamp, varsName,
                   varsExtract>>

FilterDedup ==
    /\ pcFilter = "dedup"
    /\ evIx <= Len(events)
    /\ LET event == events[evIx]
           at == MapIndex(eventMap, DuplicateKey(event))
           existingEvent == events[eventMap[at].value]
           cur == parseTimestampFields(event.messageTimestamp)
           old == parseTimestampFields(existingEvent.messageTimestamp)
       IN  IF at = 0
           THEN /\ eventMap' = removeDuplicatesStep(eventMap, events, evIx, 0, 0)
                /\ UNCHANGED <<clock, observed>>
           ELSE \E n1 \in IF cur.matched THEN {clock} ELSE ClockReadings(clock) :
                \E n2 \in IF old.matched THEN {n1} ELSE ClockReadings(n1) :
                   LET currentTime == TimeOf(cur, n1.t)
                       existingTime == TimeOf(old, n2.t)
                   IN  /\ eventMap' = removeDuplicatesStep(eventMap, events, evIx,
                                                           currentTime, existingTime)
                       /\ clock' = n2
                       /\ observed' =
                            [observed EXCEPT
                               ![event.originalMessage] = currentTime,
                               ![existingEvent.originalMessage] = existingTime]
    /\ evIx' = evIx + 1
    /\ UNCHANGED <<messages, msgIx, events, uniqueEvents, pcFilter>>
    /\ UNCHANGED <<varsParse, varsStats, varsGroup, varsStamp, varsName,
                   varsExtract>>

FilterDedupEnd ==
    /\ pcFilter = "dedup"
    /\ evIx > Len(events)
    /\ uniqueEvents' = MapValues(eventMap)
    /\ pcFilter' = "sort"
    /\ UNCHANGED <<messages, msgIx, events, eventMap, evIx, clock, observed>>
    /\ UNCHANGED <<varsParse, varsStats, varsGroup, varsStamp, varsName,
                   varsExtract>>

\* the places of the output whose timestamps do not parse
Unparsed(evs, out) ==
    {i \in 1..Len(out) : ~Parses(evs[out[i]].messageTimestamp)}

\* the clock readings still to come
ClockAhead(c) == {c.t + d : d \in 0..(MaxTicks - c.ticks)}

\* the clock once it has given the readings r
ClockAfter(c, r) ==
    IF DOMAIN r = {} THEN c
    ELSE LET last == CHOOSE m \in {r[i] : i \in DOMAIN r} :
                         \A i \in DOMAIN r : r[i] <= m
         IN  [t |-> last, ticks |-> c.ticks + (last - c.t)]

\* the output paired with the times the comparator sees: r gives the clock
\* reading for each place whose timestamp does not parse (SubSeq makes the
\* result a tuple, computed once)
ComparedTimes(evs, out, r) ==
    SubSeq([i \in 1..Len(out) |->
               [event |-> out[i],
                at |-> IF i \in DOMAIN r THEN r[i]
                       ELSE parseTimestamp(evs[out[i]].messageTimestamp, 0)]],
           1, Len(out))

EventsOf(sorted) == [i \in 1..Len(sorted) |-> sorted[i].event]

\* the sort of processMessages: every call of the comparator parses both
\* timestamps again, so an event whose timestamp does not parse is compared
\* by a reading of the clock
FilterSort ==
    /\ pcFilter = "sort"
    /\ \E r \in [Unparsed(events, uniqueEvents) -> ClockAhead(clock)] :
          /\ uniqueEvents' =
                EventsOf(SortByTime(ComparedTimes(events, uniqueEvents, r)))
          /\ clock' = ClockAfter(clock, r)
    /\ pcFilter' = "done"
    /\ UNCHANGED <<messages, msgIx, events, eventMap, evIx, observed>>
    /\ UNCHANGED <<varsParse, varsStats, varsGroup, varsStamp, varsName,
                   varsExtract>>

NextFilter ==
    \/ FilterParse
    \/ FilterParseEnd
    \/ FilterDedup
    \/ FilterDedupEnd
    \/ FilterSort

\* the messages the filter is run on
MaxMessages == 3

Sender == <<"A","l">>

TsNoon     == <<"2","5","/","0","7","/","2","5",","," ","1","2",":","1","3",":","1","2"," ","p","."," ","m",".">>
TsBad      == <<"2","5","/","0","7","/","2","5",","," ","1","3","h","0","5">>
TsDateOnly == <<"LRM","2","5","/","0","7","/","2","5">>

DayLines == <<<<"D","í","a",":"," ","v","i","e","r","n","e","s">>, <<"d","í","a",":","M","i","e","r","c","o","l","e","s">>, <<"D","Í","A",":"," "," ","V","i","e","n","e","s"," ">>,
              <<"D","í","a",":"," ","M","I","É","R","C","O","L","E","S">>, <<"D","í","a",":"," ","l","u","n","e","s">>, <<"H","o","r","a",":"," ","9",":","0","0"," ","p","m">>>>

ContentOf(dayLine) == dayLine \o <<"NL","1","."," ","A","l">>

Message(timestamp, dayLine) ==
    [timestamp |-> timestamp, sender |-> Sender, content |-> ContentOf(dayLine),
     rawMessage |-> <<"[">> \o timestamp \o <<"]"," ">> \o Sender \o <<":"," ">>
                    \o ContentOf(dayLine)]

FilterMessages ==
    {Message(TsNoon, DayLines[1]), Message(TsBad, DayLines[1]),
     Message(TsNoon, DayLines[2]), Message(TsDateOnly, DayLines[3]),
     Message(TsBad, DayLines[4]), Message(TsNoon, DayLines[5]),
     Message(TsNoon, DayLines[6])}

SeqsUpTo(S, n) == UNION {[1..k -> S] : k \in 0..n}

\* the clock of the run: long after every message, or (a clock set wrong)
\* just before the time TsNoon names
StartTimes ==
    {DateValue(2026, 10, 3, 0, 0, 0), parseTimestamp(TsNoon, 0) - 1}

IdleParse ==
    /\ lines = <<>> /\ lineIx = 0 /\ currentMessage = [none |-> TRUE]
    /\ parsedMessages = <<>> /\ pcParse = "idle"

IdleFilter ==
    /\ messages = <<>> /\ msgIx = 0 /\ events = <<>> /\ eventMap = <<>>
    /\ evIx = 0 /\ uniqueEvents = <<>> /\ clock = [t |-> 0, ticks |-> 0]
    /\ observed = <<>> /\ pcFilter = "idle"

IdleStats ==
    /\ statEvents = <<>> /\ statEv = 0 /\ statPl = 0 /\ playerMap = <<>>
    /\ rankings = <<>> /\ pcStats = "idle"

IdleGroup ==
    /\ script = "" /\ simLevel = 0
    /\ players = <<>> /\ grpIndex = 0 /\ grpOther = 0
    /\ group = <<>> /\ groups = <<>> /\ processed = {} /\ consolidated = <<>>
    /\ finalPlayers = <<>> /\ pcGroup = "idle"

IdleStamp == tsInput = <<>> /\ tsOutput = <<>> /\ pcStamp = "idle"

IdleName ==
    /\ nameInput = <<>> /\ nameCleaned = <<>> /\ nameOutput = <<>>
    /\ pcName = "idle"

IdleExtract ==
    /\ routine = "" /\ msgLines = <<>> /\ lineNo = 0 /\ extracted = <<>>
    /\ pcExtract = "idle"

InitFilter ==
    /\ messages \in SeqsUpTo(FilterMessages, MaxMessages)
    /\ msgIx = 1
    /\ events = <<>>
    /\ eventMap = <<>>
    /\ evIx = 1
    /\ uniqueEvents = <<>>
    /\ clock \in {[t |-> t0, ticks |-> 0] : t0 \in StartTimes}
    /\ observed = [i \in 1..Len(messages) |-> -1]
    /\ pcFilter = "parse"
    /\ IdleParse /\ IdleStats /\ IdleGroup /\ IdleStamp /\ IdleName /\ IdleExtract

SpecFilter == InitFilter /\ [][NextFilter]_vars

-----------------------------------------------------------------------------
(* Properties of MessageFilter                                             *)

DedupDone == pcFilter \in {"sort", "done"}

SameKey(i, j) == DuplicateKey(events[i]) = DuplicateKey(events[j])

\* the events (places in the events array) that share the key of event i
Duplicates(i) == {j \in 1..Len(events) : SameKey(i, j)}

\* the places of the output that hold an event with the key of event i
OutputWithKey(i) ==
    {s \in 1..Len(uniqueEvents) : SameKey(uniqueEvents[s], i)}

\* the instant parseTimestamp gave for event i: its parsed time, or the
\* clock reading it last fell back to
InstantOf(i) ==
    parseTimestamp(events[i].messageTimestamp,
                   observed[events[i].originalMessage])

\* C1: once removeDuplicates has returned, every key among the input events
\* has exactly one event in the output, and no input event with that key has
\* a later instant than the one kept.
C1_LatestSurvives ==
    DedupDone =>
        \A i \in 1..Len(events) :
            /\ Cardinality(OutputWithKey(i)) = 1
            /\ \A s \in OutputWithKey(i) :
                  InstantOf(i) <= InstantOf(uniqueEvents[s])

\* three duplicates, all parsed, the second one strictly the latest and kept
C1_Witness ==
    /\ pcFilter = "done"
    /\ Len(events) = 3
    /\ Duplicates(1) = {1, 2, 3}
    /\ \A i \in 1..3 : Parses(events[i].messageTimestamp)
    /\ InstantOf(1) < InstantOf(2) /\ InstantOf(3) < InstantOf(2)
    /\ uniqueEvents = <<2>>

\* C2: when exactly two events share a key and their instants are equal or
\* the timestamp of either fails to parse, the first-seen of the two is the
\* one kept.
C2_FirstSeenKept ==
    DedupDone =>
        \A i, j \in 1..Len(events) :
            (/\ i < j
             /\ Duplicates(i) = {i, j}
             /\ \/ ~Parses(events[i].messageTimestamp)
                \/ ~Parses(events[j].messageTimestamp)
                \/ InstantOf(i) = InstantOf(j))
            => \A s \in OutputWithKey(i) : uniqueEvents[s] = i

\* the raw day text of a message: what follows "día:" on its last such line
RawDay(message) ==
    ExtractLines([eventName |-> <<>>, dayOfWeek |-> <<>>, time |-> <<>>,
                  location |-> <<>>, players |-> <<>>],
                 split(message.content, "NL")).dayOfWeek

Kept(m) == \E i \in 1..Len(events) : events[i].originalMessage = m

CanonicalDays == {<<"v","i","e","r","n","e","s">>, <<"m","i","é","r","c","o","l","e","s">>}

\* C10: a message yields an event if and only if normalizeDayName of its raw
\* day text is "viernes" or "miércoles", and the event carries that canonical
\* day.
C10_DayFilter ==
    /\ \A m \in 1..Len(messages) :
          m < msgIx =>
             (Kept(m) <=> normalizeDayName(RawDay(messages[m])) \in CanonicalDays)
    /\ \A i \in 1..Len(events) :
          /\ events[i].dayOfWeek \in CanonicalDays
          /\ events[i].dayOfWeek =
                normalizeDayName(RawDay(messages[events[i].originalMessage]))

\* "Miercoles" and "MIÉRCOLES" both admitted as miércoles, "lunes" rejected
C10_Witness ==
    /\ pcFilter = "done"
    /\ Len(messages) = 3
    /\ RawDay(messages[1]) = <<"M","i","e","r","c","o","l","e","s">>
    /\ RawDay(messages[2]) = <<"M","I","É","R","C","O","L","E","S">>
    /\ RawDay(messages[3]) = <<"l","u","n","e","s">>
    /\ Len(events) = 2
    /\ events[1].dayOfWeek = <<"m","i","é","r","c","o","l","e","s">>
    /\ events[2].dayOfWeek = <<"m","i","é","r","c","o","l","e","s">>
    /\ ~Kept(3)


\* the events whose timestamp matches no format
Fallbacks == {i \in 1..Len(events) : ~Parses(events[i].messageTimestamp)}

\* the readings the clock has given since the run began
ReadingsSoFar == (clock.t - clock.ticks)..clock.t

\* C13: for a timestamp that matches none of the four formats parseTimestamp
\* returns the time of the clock when it is called, and it never raises: the
\* batch goes on, every event is deduplicated and the output is sorted, with
\* each such event or another of its key in it.
C13_FallbackIsNow ==
    /\ \A i \in Fallbacks :
          observed[events[i].originalMessage] # -1 =>
             observed[events[i].originalMessage] \in ReadingsSoFar
    /\ DedupDone => evIx = Len(events) + 1
    /\ pcFilter = "done" =>
          /\ \A i \in Fallbacks : OutputWithKey(i) # {}
          /\ Len(uniqueEvents) = Len(eventMap)

\* two events of one key and one of another, the first with a timestamp of
\* no format: it was compared by a clock reading, and the batch is sorted
C13_Witness ==
    /\ pcFilter = "done"
    /\ Len(events) = 3
    /\ 1 \in Fallbacks /\ Duplicates(1) = {1, 2}
    /\ observed[events[1].originalMessage] \in ReadingsSoFar
    /\ Len(uniqueEvents) = 2

\* the place of an event among the values of the Map, the order in which
\* removeDuplicates returns them
DedupPlace(e) == CHOOSE k \in 1..Len(eventMap) : eventMap[k].value = e

\* the instant of the event at place i of the output, r giving the clock
\* reading for each place whose timestamp matches no format
SortInstant(r, i) ==
    IF i \in DOMAIN r THEN r[i]
    ELSE parseTimestamp(events[uniqueEvents[i]].messageTimestamp, 0)

\* the output is in non-decreasing order of instant, equal instants in the
\* order of the deduplicated list
InTimeOrder(r) ==
    \A a, b \in 1..Len(uniqueEvents) :
        a < b =>
           /\ SortInstant(r, a) <= SortInstant(r, b)
           /\ SortInstant(r, a) = SortInstant(r, b) =>
                 DedupPlace(uniqueEvents[a]) < DedupPlace(uniqueEvents[b])

\* C19: the output of processMessages holds the events that deduplication
\* kept, in non-decreasing order of parsed instant (a clock reading where
\* the timestamp matches no format), events of equal instants in the order
\* deduplication returned them; the sort always completes.
C19_SortedByInstant ==
    pcFilter = "done" =>
        /\ Len(uniqueEvents) = Len(eventMap)
        /\ {uniqueEvents[i] : i \in 1..Len(uniqueEvents)}
              = {eventMap[k].value : k \in 1..Len(eventMap)}
        /\ \E r \in [Unparsed(events, uniqueEvents) -> ReadingsSoFar] :
              InTimeOrder(r)

\* two events kept, the one that deduplication returned last having the
\* earlier instant: the sort puts it first
C19_Witness ==
    /\ pcFilter = "done"
    /\ Len(uniqueEvents) = 2
    /\ Unparsed(events, uniqueEvents) = {}
    /\ SortInstant(<<>>, 1) < SortInstant(<<>>, 2)
    /\ DedupPlace(uniqueEvents[1]) = 2
-----------------------------------------------------------------------------
(* WhatsAppParser.parseFile                                                *)

\* [ap]\.\s*m\. at position p: the position after it, 0 if it is not there
HeaderPeriodEnd(s, p) ==
    IF /\ p + 1 <= Len(s)
       /\ s[p] \in {"a", "p"}
       /\ s[p + 1] = "."
       /\ MatchesAt(s, <<"m", ".">>, SkipSpaces(s, p + 2))
    THEN SkipSpaces(s, p + 2) + 2
    ELSE 0

\* (\d{1,2}:\d{2}:\d{2}\s*[ap]\.\s*m\.) from t0 on: the position after it, 0
\* if it is not there
HeaderTimeEnd(s, t0) ==
    IF TimeEnd(s, t0, TRUE) = 0 THEN 0
    ELSE HeaderPeriodEnd(s, SkipSpaces(s, TimeEnd(s, t0, TRUE)))

NoHeader == [matched |-> FALSE]

\* ^\[(date),\s*(time)\] which both patterns begin with: the date is
\* s[2..d], the comma at d + 1, the time s[t0..e-1], the closing bracket at e
StampAt(s, d, t0, e) ==
    IF e > 0 /\ MatchesAt(s, <<"]">>, e)
    THEN [matched |-> TRUE, date |-> SubSeq(s, 2, d),
          time |-> SubSeq(s, t0, e - 1), rest |-> From(s, e + 1)]
    ELSE NoHeader

StampFrom(s, d, t0) == StampAt(s, d, t0, HeaderTimeEnd(s, t0))

StampAfterDate(s, d) ==
    IF d > 0 /\ MatchesAt(s, <<",">>, d + 1)
    THEN StampFrom(s, d, SkipSpaces(s, d + 2))
    ELSE NoHeader

Stamp(s) ==
    IF MatchesAt(s, <<"[">>, 1) THEN StampAfterDate(s, DateEnd(From(s, 2)))
    ELSE NoHeader

\* the place of the first colon, 0 if there is none
FirstColon(s) ==
    IF \E i \in 1..Len(s) : s[i] = ":"
    THEN Least({i \in 1..Len(s) : s[i] = ":"})
    ELSE 0

\* (.*): the text up to the first line terminator
UpToTerminator(s) ==
    IF \E i \in 1..Len(s) : s[i] = "CR"
    THEN SubSeq(s, 1, Least({i \in 1..Len(s) : s[i] = "CR"}) - 1)
    ELSE s

\* \s*([^:]+): before the colon at c: the spaces are taken first, but one
\* character is left to the group when there are only spaces
SenderGroup(rest, c) ==
    IF SkipSpaces(rest, 1) >= c THEN <<rest[c - 1]>>
    ELSE SubSeq(rest, SkipSpaces(rest, 1), c - 1)

\* \s*([^:]*?): before the colon at c
SystemSenderGroup(rest, c) ==
    IF SkipSpaces(rest, 1) >= c THEN <<>>
    ELSE SubSeq(rest, SkipSpaces(rest, 1), c - 1)

\* the rest of messagePattern after the stamp: \s*([^:]+):\s*(.*)
MessageAfterStamp(st, c) ==
    IF c >= 2
    THEN [matched |-> TRUE, date |-> st.date, time |-> st.time,
          sender |-> SenderGroup(st.rest, c),
          content |-> UpToTerminator(From(st.rest, SkipSpaces(st.rest, c + 1)))]
    ELSE NoHeader

\* the rest of systemPattern after the stamp: \s*([^:]*?):\s*LRM(.*)$, k
\* being where LRM has to be
SystemAfterStamp(st, c, k) ==
    IF /\ c >= 1
       /\ MatchesAt(st.rest, <<"LRM">>, k)
       /\ UpToTerminator(From(st.rest, k + 1)) = From(st.rest, k + 1)
    THEN [matched |-> TRUE, date |-> st.date, time |-> st.time,
          sender |-> SystemSenderGroup(st.rest, c),
          content |-> From(st.rest, k + 1)]
    ELSE NoHeader

MessageOfStamp(st) ==
    IF st.matched THEN MessageAfterStamp(st, FirstColon(st.rest)) ELSE NoHeader

SystemOfStamp(st) ==
    IF st.matched
    THEN SystemAfterStamp(st, FirstColon(st.rest),
                          SkipSpaces(st.rest, FirstColon(st.rest) + 1))
    ELSE NoHeader

\* line.match(this.messagePattern)
messagePattern(line) == MessageOfStamp(Stamp(line))

\* line.match(this.systemPattern)
systemPattern(line) == SystemOfStamp(Stamp(line))

\* line.match(this.messagePattern) || line.match(this.systemPattern), st
\* being the stamp the line begins with
MatchOfStamp(st) ==
    IF MessageOfStamp(st).matched THEN MessageOfStamp(st)
    ELSE SystemOfStamp(st)

messageMatch(line) == MatchOfStamp(Stamp(line))

NoMessage == [none |-> TRUE]

\* if (currentMessage) this.messages.push(currentMessage)
Flushed_Dropped(msgs, cur) == msgs

Flushed(msgs, cur) == IF cur = NoMessage THEN msgs ELSE Append(msgs, cur)

\* the message a header line starts
NewMessage(m, line) ==
    [timestamp |-> m.date \o <<",", " ">> \o m.time,
     sender |-> trim(m.sender),
     content |-> m.content,
     rawMessage |-> line]

Continued_Unseparated(cur, line) ==
    [cur EXCEPT !.content = @ \o line, !.rawMessage = @ \o line]

\* currentMessage.content += '\n' + line, and rawMessage likewise
Continued(cur, line) ==
    [cur EXCEPT !.content = @ \o <<"NL">> \o line,
                !.rawMessage = @ \o <<"NL">> \o line]

\* lines[i].trim()
CurrentLine == trim(lines[lineIx])

InLoop == pcParse = "lines" /\ lineIx <= Len(lines)

\* if (!line) continue
ParseBlank ==
    /\ InLoop
    /\ CurrentLine = <<>>
    /\ lineIx' = lineIx + 1
    /\ UNCHANGED <<lines, currentMessage, parsedMessages, pcParse>>
    /\ UNCHANGED <<varsFilter, varsStats, varsGroup, varsStamp, varsName,
                   varsExtract>>

\* a header: the message before it is stored and a new one begun
ParseHeader ==
    /\ InLoop
    /\ CurrentLine # <<>>
    /\ messageMatch(CurrentLine).matched
    /\ parsedMessages' = Flushed(parsedMessages, currentMessage)
    /\ currentMessage' = NewMessage(messageMatch(CurrentLine), CurrentLine)
    /\ lineIx' = lineIx + 1
    /\ UNCHANGED <<lines, pcParse>>
    /\ UNCHANGED <<varsFilter, varsStats, varsGroup, varsStamp, varsName,
                   varsExtract>>

\* a line that is no header, with a message begun
ParseContinuation ==
    /\ InLoop
    /\ CurrentLine # <<>>
    /\ ~messageMatch(CurrentLine).matched
    /\ currentMessage # NoMessage
    /\ currentMessage' = Continued(currentMessage, CurrentLine)
    /\ lineIx' = lineIx + 1
    /\ UNCHANGED <<lines, parsedMessages, pcParse>>
    /\ UNCHANGED <<varsFilter, varsStats, varsGroup, varsStamp, varsName,
                   varsExtract>>

\* a line that is no header, before any message
ParseDropped ==
    /\ InLoop
    /\ CurrentLine # <<>>
    /\ ~messageMatch(CurrentLine).matched
    /\ currentMessage = NoMessage
    /\ lineIx' = lineIx + 1
    /\ UNCHANGED <<lines, currentMessage, parsedMessages, pcParse>>
    /\ UNCHANGED <<varsFilter, varsStats, varsGroup, varsStamp, varsName,
                   varsExtract>>

\* the end of the loop: the last message is stored, this.messages returned
ParseEnd ==
    /\ pcParse = "lines"
    /\ lineIx > Len(lines)
    /\ parsedMessages' = Flushed(parsedMessages, currentMessage)
    /\ pcParse' = "done"
    /\ UNCHANGED <<lines, lineIx, currentMessage>>
    /\ UNCHANGED <<varsFilter, varsStats, varsGroup, varsStamp, varsName,
                   varsExtract>>

NextParse ==
    \/ ParseBlank
    \/ ParseHeader
    \/ ParseContinuation
    \/ ParseDropped
    \/ ParseEnd

\* the lines of the files parseFile is run on
MaxLines == 5

LineHeader    == <<"[","2","5","/","0","7","/","2","5",","," ","1","2",":","1","3",":","1","2"," ","p","."," ","m",".","]"," ","A","l",":"," ","H","o","y">>
LineSystem    == <<" ","[","1","/","0","8","/","2","5",","," ","9",":","0","0",":","0","1"," ","a",".","m",".","]",":","LRM","o","m","i","t","i","d","o">>
LineBlank     == <<" ","CR">>
LinePlayer    == <<" ","1","."," ","A","l","CR">>
LineNoSeconds == <<"[","2","5","/","0","7","/","2","5",","," ","1","2",":","1","3"," ","p","."," ","m",".","]"," ","A","l",":"," ","x">>

ParseLines == {LineHeader, LineSystem, LineBlank, LinePlayer, LineNoSeconds}

\* readFileSync(filePath, 'utf-8') for a file of the lines ls
FileContent(ls) == join(ls, <<"NL">>)

InitParse ==
    /\ lines \in {split(FileContent(ls), "NL") :
                     ls \in SeqsUpTo(ParseLines, MaxLines)}
    /\ lineIx = 1
    /\ currentMessage = NoMessage
    /\ parsedMessages = <<>>
    /\ pcParse = "lines"
    /\ IdleFilter /\ IdleStats /\ IdleGroup /\ IdleStamp /\ IdleName /\ IdleExtract

SpecParse == InitParse /\ [][NextParse]_vars

-----------------------------------------------------------------------------
(* Properties of WhatsAppParser.parseFile                                  *)

IsHeader(line) == messageMatch(trim(line)).matched

HeaderPlaces == {i \in 1..Len(lines) : IsHeader(lines[i])}

\* the place of the k-th header, hp being the places of the headers
HeaderAt(hp, k) ==
    CHOOSE h \in hp : Cardinality({j \in hp : j <= h}) = k

\* the lines that are neither empty nor headers and whose nearest preceding
\* header is at h
ContinuationPlaces(hp, h) ==
    {i \in (h + 1)..Len(lines) :
        /\ trim(lines[i]) # <<>>
        /\ \A j \in (h + 1)..i : j \notin hp}

\* the trimmed lines at the places S, in input order
RECURSIVE TrimmedAt(_)
TrimmedAt(S) ==
    IF S = {} THEN <<>>
    ELSE <<trim(lines[Least(S)])>> \o TrimmedAt(S \ {Least(S)})

\* the k-th message begins with the k-th header line
BegunByHeader(hp, k) ==
    split(parsedMessages[k].rawMessage, "NL")[1] = trim(lines[HeaderAt(hp, k)])

OnePerHeader(hp) ==
    /\ Len(parsedMessages) = Cardinality(hp)
    /\ \A k \in 1..Len(parsedMessages) : BegunByHeader(hp, k)

\* C8: when parseFile returns, it returns as many messages as there are
\* header lines in the input, the k-th message begun by the k-th header.
C8_OneMessagePerHeader == pcParse = "done" => OnePerHeader(HeaderPlaces)

\* two headers, with a line before the first, and an empty line and a
\* continuation line between them
C8_Witness ==
    /\ pcParse = "done"
    /\ Len(lines) = 5
    /\ HeaderPlaces = {2, 5}
    /\ trim(lines[1]) # <<>>
    /\ trim(lines[3]) = <<>>
    /\ trim(lines[4]) # <<>>
    /\ Len(parsedMessages) = 2
    /\ parsedMessages[1] # parsedMessages[2]

\* the message is the header line at h (content: what the header captured)
\* and the continuation lines that follow it, joined by newlines
HasLinesOf(message, h, continuations) ==
    /\ message.content =
          join(<<messageMatch(trim(lines[h])).content>> \o continuations,
               <<"NL">>)
    /\ message.rawMessage = join(<<trim(lines[h])>> \o continuations, <<"NL">>)

AttachedTo(hp, k, h) ==
    HasLinesOf(parsedMessages[k], h, TrimmedAt(ContinuationPlaces(hp, h)))

AllAttached(hp) ==
    \A k \in 1..Len(parsedMessages) :
        k <= Cardinality(hp) => AttachedTo(hp, k, HeaderAt(hp, k))

\* C9: the content and the raw text of the k-th message are those of its
\* header line followed, each after a newline, by the lines that are neither
\* empty nor headers up to the next header, in input order; and as long as
\* no header has been read no message is begun or stored.
C9_ContinuationsAttach ==
    /\ pcParse = "done" => AllAttached(HeaderPlaces)
    /\ (currentMessage # NoMessage \/ parsedMessages # <<>>) =>
          \E h \in 1..(lineIx - 1) : IsHeader(lines[h])

\* a line before the header is dropped, and two lines after it are appended
\* across an empty line
C9_Witness ==
    /\ pcParse = "done"
    /\ Len(lines) = 5
    /\ HeaderPlaces = {2}
    /\ trim(lines[1]) # <<>>
    /\ trim(lines[4]) = <<>>
    /\ Len(parsedMessages) = 1
    /\ parsedMessages[1].content =
          messageMatch(trim(lines[2])).content
             \o <<"NL">> \o trim(lines[3]) \o <<"NL">> \o trim(lines[5])

-----------------------------------------------------------------------------
(* PlayerStatsAnalyzer: names                                              *)

\* s.replace(/\([^)]*\)/g, '') and its like for [] and {}: every stretch from
\* an opening character to the next closing one is removed
RECURSIVE RemoveBracketed(_, _, _)
RemoveBracketed(s, open, close) ==
    IF s = <<>> THEN <<>>
    ELSE IF Head(s) = open /\ \E j \in 2..Len(s) : s[j] = close
    THEN RemoveBracketed(
             From(s, Least({j \in 2..Len(s) : s[j] = close}) + 1), open, close)
    ELSE <<Head(s)>> \o RemoveBracketed(Tail(s), open, close)

endsWith(s, p) ==
    Len(s) >= Len(p) /\ SubSeq(s, Len(s) - Len(p) + 1, Len(s)) = p

\* t.replace(/\s*w\s*$/i, '') where t ends with w (after its trailing
\* spaces): w and the spaces around it are removed
CutSuffix(t, w) == trimEnd(SubSeq(t, 1, Len(t) - Len(w)))

\* s.replace(/\s*w\s*$/i, ''), t being s without its trailing spaces
StripSuffixOf(s, t, w) ==
    IF endsWith(toLowerCase(t), w) THEN CutSuffix(t, w) ELSE s

StripSuffix(s, w) == StripSuffixOf(s, trimEnd(s), w)

\* the UTF-16 code units of the class [🔥⭐✨💪👑🏆⚽] (a pattern without the
\* u flag): the halves of the surrogate pairs count one by one
EmojiUnits ==
    {"uD83D", "uDD25", "u2B50", "u2728", "uDCAA", "uDC51", "uD83C", "uDFC6",
     "u26BD"}

\* word.charAt(0).toUpperCase() + word.slice(1)
Capitalize(word) ==
    IF word = <<>> THEN <<>> ELSE <<UpperChar(Head(word))>> \o Tail(word)

\* word.charAt(0).toUpperCase() + word.slice(1).toLowerCase()
CapitalizeLower(word) ==
    IF word = <<>> THEN <<>>
    ELSE <<UpperChar(Head(word))>> \o toLowerCase(Tail(word))

TitleCase(words) == [i \in 1..Len(words) |-> Capitalize(words[i])]

TitleCaseLower(words) == [i \in 1..Len(words) |-> CapitalizeLower(words[i])]

\* the first statement of cleanPlayerName: the chain of replacements
Cleaned(playerName) ==
    trim(CollapseSpaces(
        RemoveChars(
            StripSuffix(
                StripSuffix(
                    RemoveChars(
                        RemoveBracketed(
                            RemoveBracketed(
                                RemoveBracketed(playerName, "(", ")"),
                                "[", "]"),
                            "{", "}"),
                        {"LRM", "<", ">"}),
                    <<"g","o">>),
                <<"-">>),
            EmojiUnits)))

\* the rest of cleanPlayerName
Formatted(cleaned) ==
    IF cleaned = <<>> THEN <<>>
    ELSE join(TitleCase(split(toLowerCase(cleaned), " ")), <<" ">>)

cleanPlayerName(playerName) == Formatted(Cleaned(playerName))

\* Object.entries(this.playerAliases), in insertion order
playerAliases ==
    <<[alias |-> <<"c","o","n","d","e">>,     mainName |-> <<"S","p","e","c","t","r","e">>],
      [alias |-> <<"S","p","e","c","t","r","e">>,   mainName |-> <<"S","p","e","c","t","r","e">>],
      [alias |-> <<"D","a","y","l","e","r">>,    mainName |-> <<"D","a","y","l","e","r">>],
      [alias |-> <<"D","e","y","l","e","r">>,    mainName |-> <<"D","a","y","l","e","r">>],
      [alias |-> <<"K","e","n","y","i">>,     mainName |-> <<"S","e","b","a","s">>],
      [alias |-> <<"S","e","b","a","s">>,     mainName |-> <<"S","e","b","a","s">>],
      [alias |-> <<"S","e","b","a","s","t","i","a","n">>, mainName |-> <<"S","e","b","a","s">>]>>

AliasPlaces_Exact(normalized) ==
    {i \in 1..Len(playerAliases) : playerAliases[i].alias = normalized}

AliasPlaces(normalized) ==
    {i \in 1..Len(playerAliases) :
        toLowerCase(playerAliases[i].alias) = normalized}

\* normalizePlayerName, normalized being the name in lower case
NormalizedAs(cleanName, normalized) ==
    IF AliasPlaces(normalized) # {}
    THEN playerAliases[Least(AliasPlaces(normalized))].mainName
    ELSE join(TitleCaseLower(split(cleanName, " ")), <<" ">>)

normalizePlayerName(cleanName) ==
    NormalizedAs(cleanName, toLowerCase(trim(CollapseSpaces(cleanName))))

-----------------------------------------------------------------------------
(* PlayerStatsAnalyzer.processPlayers and analyzePlayerStats               *)

\* `${event.eventDate} (${event.dayOfWeek})`
eventKeyOf(event) ==
    event.eventDate \o <<" ", "(">> \o event.dayOfWeek \o <<")">>

\* !playerName || playerName.trim() === '' || playerName === '-'
IsSkipped(playerName) ==
    playerName = <<>> \/ trim(playerName) = <<>> \/ playerName = <<"-">>

\* the name a token is counted under, empty when it is not counted
NameOf(playerName) ==
    IF IsSkipped(playerName) THEN <<>>
    ELSE normalizePlayerName(cleanPlayerName(playerName))

NewStats(normalizedName) ==
    [name |-> normalizedName, cleanName |-> normalizedName, attendance |-> 0,
     events |-> <<>>, variations |-> <<>>]

\* Array.prototype.includes
Contains(array, x) == \E i \in 1..Len(array) : array[i] = x

Attended_Kept(stats) == stats

\* playerStats.attendance++
Attended(stats) == [stats EXCEPT !.attendance = @ + 1]

WithEvent_Always(stats, eventKey) ==
    [stats EXCEPT !.events = Append(@, eventKey)]

\* the event key is added unless it is there
WithEvent(stats, eventKey) ==
    IF Contains(stats.events, eventKey) THEN stats
    ELSE [stats EXCEPT !.events = Append(@, eventKey)]

WithVariation_Raw(stats, playerName) ==
    IF Contains(stats.variations, playerName) THEN stats
    ELSE [stats EXCEPT !.variations = Append(@, playerName)]

\* the trimmed token is added unless it is there
WithVariation(stats, playerName) ==
    IF Contains(stats.variations, trim(playerName)) THEN stats
    ELSE [stats EXCEPT !.variations = Append(@, trim(playerName))]

Upserted_Fresh(map, normalizedName) ==
    IF MapIndex(map, normalizedName) # 0
    THEN [map EXCEPT ![MapIndex(map, normalizedName)].value =
             NewStats(normalizedName)]
    ELSE Append(map, [key |-> normalizedName,
                      value |-> NewStats(normalizedName)])

\* if (!playerMap.has(normalizedName)) playerMap.set(normalizedName, {...})
Upserted(map, normalizedName) ==
    IF MapIndex(map, normalizedName) # 0 THEN map
    ELSE Append(map, [key |-> normalizedName,
                      value |-> NewStats(normalizedName)])

\* the updates of the entry at place at
CountedAt(map, at, eventKey, playerName) ==
    [map EXCEPT ![at].value =
        WithVariation(WithEvent(Attended(@), eventKey), playerName)]

CountedIn(map, normalizedName, eventKey, playerName) ==
    CountedAt(map, MapIndex(map, normalizedName), eventKey, playerName)

\* the body of the inner loop of processPlayers for a token that is counted
processPlayer(map, eventKey, playerName, normalizedName) ==
    CountedIn(Upserted(map, normalizedName), normalizedName, eventKey,
              playerName)

\* Array.prototype.sort with the comparator b.attendance - a.attendance:
\* stable, descending
RECURSIVE InsertByAttendance_Strict(_, _)
InsertByAttendance_Strict(sorted, x) ==
    IF sorted = <<>> THEN <<x>>
    ELSE IF sorted[Len(sorted)].attendance > x.attendance
    THEN Append(sorted, x)
    ELSE Append(InsertByAttendance_Strict(SubSeq(sorted, 1, Len(sorted) - 1),
                                          x),
                sorted[Len(sorted)])

RECURSIVE InsertByAttendance(_, _)
InsertByAttendance(sorted, x) ==
    IF sorted = <<>> THEN <<x>>
    ELSE IF sorted[Len(sorted)].attendance >= x.attendance
    THEN Append(sorted, x)
    ELSE Append(InsertByAttendance(SubSeq(sorted, 1, Len(sorted) - 1), x),
                sorted[Len(sorted)])

RECURSIVE SortByAttendance(_)
SortByAttendance(xs) ==
    IF xs = <<>> THEN <<>>
    ELSE InsertByAttendance(SortByAttendance(SubSeq(xs, 1, Len(xs) - 1)),
                            xs[Len(xs)])

\* for (const playerName of event.players) can run: the event read from the
\* file has a players array
Iterable(event) == "players" \in DOMAIN event

InPlayers ==
    /\ pcStats = "players"
    /\ statEv <= Len(statEvents)
    /\ Iterable(statEvents[statEv])
    /\ statPl <= Len(statEvents[statEv].players)

CurrentPlayer == statEvents[statEv].players[statPl]

\* a token that is skipped, or whose normalized name is empty
StatsSkip ==
    /\ InPlayers
    /\ NameOf(CurrentPlayer) = <<>>
    /\ statPl' = statPl + 1
    /\ UNCHANGED <<statEvents, statEv, playerMap, rankings, pcStats>>
    /\ UNCHANGED <<varsParse, varsFilter, varsGroup, varsStamp, varsName,
                   varsExtract>>

\* a token that is counted
StatsCount_Always ==
    /\ InPlayers
    /\ ~IsSkipped(CurrentPlayer)
    /\ playerMap' = processPlayer(playerMap, eventKeyOf(statEvents[statEv]),
                                  CurrentPlayer, NameOf(CurrentPlayer))
    /\ statPl' = statPl + 1
    /\ UNCHANGED <<statEvents, statEv, rankings, pcStats>>
    /\ UNCHANGED <<varsParse, varsFilter, varsGroup, varsStamp, varsName,
                   varsExtract>>

StatsCount ==
    /\ InPlayers
    /\ NameOf(CurrentPlayer) # <<>>
    /\ playerMap' = processPlayer(playerMap, eventKeyOf(statEvents[statEv]),
                                  CurrentPlayer, NameOf(CurrentPlayer))
    /\ statPl' = statPl + 1
    /\ UNCHANGED <<statEvents, statEv, rankings, pcStats>>
    /\ UNCHANGED <<varsParse, varsFilter, varsGroup, varsStamp, varsName,
                   varsExtract>>

\* the roster of an event is done
StatsNextEvent ==
    /\ pcStats = "players"
    /\ statEv <= Len(statEvents)
    /\ Iterable(statEvents[statEv])
    /\ statPl > Len(statEvents[statEv].players)
    /\ statEv' = statEv + 1
    /\ statPl' = 1
    /\ UNCHANGED <<statEvents, playerMap, rankings, pcStats>>
    /\ UNCHANGED <<varsParse, varsFilter, varsGroup, varsStamp, varsName,
                   varsExtract>>

\* an event without a players array: the for-of raises a TypeError, which
\* nothing in processPlayers catches; the catch of analyzePlayerStats
\* returns the ranking of the error case
StatsRaise ==
    /\ pcStats = "players"
    /\ statEv <= Len(statEvents)
    /\ ~Iterable(statEvents[statEv])
    /\ rankings' = <<>>
    /\ pcStats' = "failed"
    /\ UNCHANGED <<statEvents, statEv, statPl, playerMap>>
    /\ UNCHANGED <<varsParse, varsFilter, varsGroup, varsStamp, varsName,
                   varsExtract>>

\* processPlayers returns; the values of the map are sorted
StatsSort ==
    /\ pcStats = "players"
    /\ statEv > Len(statEvents)
    /\ rankings' = SortByAttendance(MapValues(playerMap))
    /\ pcStats' = "done"
    /\ UNCHANGED <<statEvents, statEv, statPl, playerMap>>
    /\ UNCHANGED <<varsParse, varsFilter, varsGroup, varsStamp, varsName,
                   varsExtract>>

NextStats ==
    \/ StatsSkip
    \/ StatsCount
    \/ StatsNextEvent
    \/ StatsRaise
    \/ StatsSort

\* the events analyzePlayerStats is run on
MaxEvents == 2

Rosters ==
    {<<<<"A","l">>, <<"a","l"," ","(","2",")">>, <<"B","o">>>>,
     <<<<"c","o","n","d","e">>, <<" ","B","o"," ","g","o">>, <<"g","o">>, <<"A","l"," ","-">>>>,
     <<<<"B","o">>, <<"B","o">>, <<"-">>>>,
     <<>>}

EventDays ==
    {[eventDate |-> <<"2","5","/","0","7","/","2","5">>, dayOfWeek |-> <<"v","i","e","r","n","e","s">>],
     [eventDate |-> <<"3","0","/","0","7","/","2","5">>, dayOfWeek |-> <<"m","i","é","r","c","o","l","e","s">>],
     [eventDate |-> <<"1","/","0","8","/","2","5">>,  dayOfWeek |-> <<"v","i","e","r","n","e","s">>]}

\* the fields of a FilteredEvent that processPlayers reads
StatEvent(eventDate, dayOfWeek, roster) ==
    [eventDate |-> eventDate, dayOfWeek |-> dayOfWeek, players |-> roster]

\* an event of the file that has no players array
MalformedEvent == [eventDate |-> <<"8","/","0","8","/","2","5">>, dayOfWeek |-> <<"v","i","e","r","n","e","s">>]

StatEvents ==
    {StatEvent(d.eventDate, d.dayOfWeek, r) : d \in EventDays, r \in Rosters}
        \cup {MalformedEvent}

\* three Friday events with the rosters [A, B], [A, C], [B], the second A
\* with a space after it
ExampleEvents ==
    <<StatEvent(<<"2","5","/","0","7","/","2","5">>, <<"v","i","e","r","n","e","s">>, <<<<"A">>, <<"B">>>>),
      StatEvent(<<"1","/","0","8","/","2","5">>,  <<"v","i","e","r","n","e","s">>, <<<<"A"," ">>, <<"C">>>>),
      StatEvent(<<"8","/","0","8","/","2","5">>,  <<"v","i","e","r","n","e","s">>, <<<<"B">>>>)>>

\* the same three events as MessageFilter extracts them from messages
ExampleMessage(date, roster) ==
    [timestamp |-> date, sender |-> Sender,
     content |-> <<"D","í","a",":"," ","v","i","e","r","n","e","s","NL">> \o roster,
     rawMessage |-> <<"[">> \o date \o <<"]"," ">> \o Sender \o <<":"," ">>
                    \o <<"D","í","a",":"," ","v","i","e","r","n","e","s","NL">> \o roster]

ExtractedEvent(message) ==
    StatEvent(parseEventFromMessage(message, 0).eventDate,
              parseEventFromMessage(message, 0).dayOfWeek,
              parseEventFromMessage(message, 0).players)

ExampleExtracted ==
    <<ExtractedEvent(ExampleMessage(<<"2","5","/","0","7","/","2","5">>, <<"1","."," ","A","NL","2","."," ","B">>)),
      ExtractedEvent(ExampleMessage(<<"1","/","0","8","/","2","5">>, <<"1","."," ","A"," ","NL","2","."," ","C">>)),
      ExtractedEvent(ExampleMessage(<<"8","/","0","8","/","2","5">>, <<"1","."," ","B">>))>>

InitStats ==
    /\ statEvents \in SeqsUpTo(StatEvents, MaxEvents)
                         \cup {ExampleEvents, ExampleExtracted}
    /\ statEv = 1
    /\ statPl = 1
    /\ playerMap = <<>>
    /\ rankings = <<>>
    /\ pcStats = "players"
    /\ IdleParse /\ IdleFilter /\ IdleGroup /\ IdleStamp /\ IdleName /\ IdleExtract

SpecStats == InitStats /\ [][NextStats]_vars

-----------------------------------------------------------------------------
(* Properties of PlayerStatsAnalyzer                                       *)

\* how often the name occurs in the roster of event e
OccurrencesIn(e, name) ==
    Cardinality({i \in 1..Len(statEvents[e].players) :
                    NameOf(statEvents[e].players[i]) = name})

RECURSIVE OccurrencesUpTo(_, _)
OccurrencesUpTo(e, name) ==
    IF e = 0 THEN 0
    ELSE OccurrencesUpTo(e - 1, name) + OccurrencesIn(e, name)

\* the keys of the events in whose rosters the name occurs
EventKeysOf(name) ==
    {eventKeyOf(statEvents[e]) :
        e \in {x \in 1..Len(statEvents) : OccurrencesIn(x, name) > 0}}

NoRepeats(array) ==
    \A i, j \in 1..Len(array) : array[i] = array[j] => i = j

Elements(array) == {array[i] : i \in 1..Len(array)}

\* C3: when processPlayers is done, the attendance of every identity is the
\* number of occurrences of its name in all rosters (an event in which it
\* occurs n times counts n), and its events hold the key of each event in
\* which it occurs exactly once.
C3_OccurrencesCounted ==
    pcStats = "done" =>
        \A p \in 1..Len(playerMap) :
            /\ playerMap[p].value.attendance =
                  OccurrencesUpTo(Len(statEvents), playerMap[p].key)
            /\ NoRepeats(playerMap[p].value.events)
            /\ Elements(playerMap[p].value.events) =
                  EventKeysOf(playerMap[p].key)

\* one event in whose roster a name occurs twice: attendance 2, one key
C3_Witness ==
    /\ pcStats = "done"
    /\ Len(statEvents) = 1
    /\ \E p \in 1..Len(playerMap) :
          /\ OccurrencesIn(1, playerMap[p].key) = 2
          /\ playerMap[p].value.attendance = 2
          /\ playerMap[p].value.events = <<eventKeyOf(statEvents[1])>>

IsExample == statEvents \in {ExampleEvents, ExampleExtracted}

IdentityA == playerMap[MapIndex(playerMap, <<"A">>)].value

\* C4 (as the code has it): for the three events with the rosters [A, B],
\* [A, C], [B], one A written "A " with a space after it, the identity "A"
\* ends with attendance 2, two event keys, and the single variation "A".
C4_ExampleTrimmed ==
    (pcStats = "done" /\ IsExample) =>
        /\ MapIndex(playerMap, <<"A">>) # 0
        /\ IdentityA.attendance = 2
        /\ Len(IdentityA.events) = 2
        /\ IdentityA.variations = <<<<"A">>>>

C4_Witness ==
    /\ pcStats = "done"
    /\ statEvents = ExampleEvents
    /\ IdentityA.attendance = 2
    /\ IdentityA.variations = <<<<"A">>>>

\* C4 as stated: the identity "A" ends with the two variations "A" and "A ".
C4_ExampleTwoVariations ==
    (pcStats = "done" /\ IsExample) =>
        /\ MapIndex(playerMap, <<"A">>) # 0
        /\ IdentityA.attendance = 2
        /\ Len(IdentityA.events) = 2
        /\ Elements(IdentityA.variations) = {<<"A">>, <<"A"," ">>}


\* the token before the current one in the roster being read
TokenRead == statEvents[statEv].players[statPl - 1]

InsertionPlace(stats) == MapIndex(playerMap, stats.name)

\* C18: the rankings hold every identity once, in non-increasing order of
\* attendance, identities of equal attendance in the order in which they
\* were first inserted.
C18_RankingsSorted ==
    pcStats = "done" =>
        /\ Len(rankings) = Len(playerMap)
        /\ Elements(rankings) = Elements(MapValues(playerMap))
        /\ \A a, b \in 1..Len(rankings) :
              a < b =>
                 /\ rankings[a].attendance >= rankings[b].attendance
                 /\ rankings[a].attendance = rankings[b].attendance =>
                       InsertionPlace(rankings[a]) < InsertionPlace(rankings[b])

\* three identities, the second inserted with the most attendance: it is
\* first, and the other two, of equal attendance, keep their order
C18_Witness ==
    /\ pcStats = "done"
    /\ Len(rankings) = 3
    /\ rankings[1] = playerMap[2].value
    /\ rankings[2] = playerMap[1].value
    /\ rankings[3] = playerMap[3].value
    /\ rankings[1].attendance > rankings[2].attendance
    /\ rankings[2].attendance = rankings[3].attendance

\* analyzePlayerStats has returned, with its ranking or through its catch
StatsReturned == pcStats \in {"done", "failed"}

\* the ranking has an identity of that name with the key of event e
RankedIn(name, e) ==
    \E r \in 1..Len(rankings) :
        /\ rankings[r].name = name
        /\ Contains(rankings[r].events, eventKeyOf(statEvents[e]))

\* C21: when one event raises an exception in the aggregation, only that
\* event is left out: every token of every other event that is not
\* discarded is in the ranking returned, under its name and with the key of
\* its event.
C21_FaultIsolation ==
    StatsReturned =>
        \A e \in 1..Len(statEvents) :
            Iterable(statEvents[e]) =>
               \A i \in 1..Len(statEvents[e].players) :
                   NameOf(statEvents[e].players[i]) # <<>> =>
                      RankedIn(NameOf(statEvents[e].players[i]), e)

\* array a is the beginning of array b
IsPrefix(a, b) == Len(a) <= Len(b) /\ SubSeq(b, 1, Len(a)) = a

\* what holds of an identity of the map
IdentityOk(stats) ==
    /\ stats.attendance >= 1
    /\ stats.events # <<>> /\ stats.variations # <<>>
    /\ NoRepeats(stats.events) /\ NoRepeats(stats.variations)
    /\ Len(stats.events) <= stats.attendance
    /\ Len(stats.variations) <= stats.attendance

\* the identity at place p of the map after a step is the one before it,
\* grown or as it was
GrownAt(p) ==
    /\ p <= Len(playerMap')
    /\ playerMap'[p].key = playerMap[p].key
    /\ playerMap'[p].value.name = playerMap[p].value.name
    /\ playerMap'[p].value.attendance >= playerMap[p].value.attendance
    /\ IsPrefix(playerMap[p].value.events, playerMap'[p].value.events)
    /\ IsPrefix(playerMap[p].value.variations,
                playerMap'[p].value.variations)

\* C24: after any prefix of the events, every identity of the map has an
\* attendance of 1 or more, events and variations that are non-empty and
\* without duplicates and no longer than the attendance; and every step
\* leaves each identity in the map with its count and its lists grown or
\* as they were.
C24_IdentityInvariant ==
    /\ [](\A p \in 1..Len(playerMap) : IdentityOk(playerMap[p].value))
    /\ [][\A p \in 1..Len(playerMap) : GrownAt(p)]_vars

\* an identity counted three times in two events under two spellings
C24_Witness ==
    /\ pcStats = "done"
    /\ \E p \in 1..Len(playerMap) :
          /\ playerMap[p].value.attendance = 3
          /\ Len(playerMap[p].value.events) = 2
          /\ Len(playerMap[p].value.variations) = 2

\* the tokens of the roster of event e among the first n that are counted
CountedTokens(e, n) ==
    {i \in 1..n : NameOf(statEvents[e].players[i]) # <<>>}

RECURSIVE CountedUpTo(_)
\* the number of tokens counted in the first e events
CountedUpTo(e) ==
    IF e = 0 THEN 0
    ELSE CountedUpTo(e - 1)
            + Cardinality(CountedTokens(e, Len(statEvents[e].players)))

\* the number of tokens counted among those read so far
CountedSoFar ==
    CountedUpTo(statEv - 1)
       + (IF statEv <= Len(statEvents) /\ Iterable(statEvents[statEv])
          THEN Cardinality(CountedTokens(statEv, statPl - 1)) ELSE 0)

RECURSIVE SumAttendance(_)
SumAttendance(map) ==
    IF map = <<>> THEN 0
    ELSE map[1].value.attendance + SumAttendance(Tail(map))

\* C28: at every point of processPlayers, and when it returns, the sum of
\* the attendance of all identities is the number of roster tokens read
\* that neither the guard nor the normalization discarded: each such token
\* is counted under one identity, once.
C28_AttendanceConserved ==
    /\ SumAttendance(playerMap) = CountedSoFar
    /\ pcStats = "done" =>
          SumAttendance(playerMap) = CountedUpTo(Len(statEvents))

\* two events read, with tokens discarded and tokens counted under three
\* identities
C28_Witness ==
    /\ pcStats = "done"
    /\ Len(statEvents) = 2
    /\ Len(playerMap) = 3
    /\ SumAttendance(playerMap) = 5
    /\ \E i \in 1..Len(statEvents[1].players) :
          NameOf(statEvents[1].players[i]) = <<>>
-----------------------------------------------------------------------------
(* 5-final-grouping.ts and 4-final-grouping.ts: cleanName,                 *)
(* groupSimilarPlayers, consolidateGroup, processPlayersData               *)

\* the two revisions of the script
Scripts == {"4-final-grouping", "5-final-grouping"}

SIMILARITY_LEVEL == 2

MIN_ATTENDANCE == 2

\* the thresholds 0.9, 0.8 and 0.7, in hundredths
SIMILARITY_THRESHOLDS == <<90, 80, 70>>

\* String.prototype.normalize('NFD') of one character
Decomposed(c) ==
    CASE c = "é" -> <<"e", "ACUTE">>
      [] c = "í" -> <<"i", "ACUTE">>
      [] c = "á" -> <<"a", "ACUTE">>
      [] c = "ñ" -> <<"n", "TILDE">>
      [] c = "É" -> <<"E", "ACUTE">>
      [] c = "Í" -> <<"I", "ACUTE">>
      [] c = "Á" -> <<"A", "ACUTE">>
      [] c = "Ñ" -> <<"N", "TILDE">>
      [] OTHER -> <<c>>

RECURSIVE normalizeNFD(_)
normalizeNFD(s) ==
    IF s = <<>> THEN <<>> ELSE Decomposed(Head(s)) \o normalizeNFD(Tail(s))

\* the characters U+0300 to U+036F that occur in decomposed letters
CombiningMarks == {"ACUTE", "TILDE"}

\* s.replace(/[^\w\s]/g, '')
RECURSIVE KeepWordsAndSpaces(_)
KeepWordsAndSpaces(s) ==
    IF s = <<>> THEN <<>>
    ELSE IF IsWordChar(Head(s)) \/ IsSpace(Head(s))
         THEN <<Head(s)>> \o KeepWordsAndSpaces(Tail(s))
         ELSE KeepWordsAndSpaces(Tail(s))

cleanName(name) ==
    toLowerCase(trim(CollapseSpaces(KeepWordsAndSpaces(
        RemoveChars(normalizeNFD(name), CombiningMarks)))))

\* the pairs of adjacent characters of s, in order
Bigrams(s) ==
    SubSeq([i \in 1..(Len(s) - 1) |-> SubSeq(s, i, i + 1)], 1, Len(s) - 1)

\* the bigrams left once one occurrence of x is used up
RECURSIVE RemoveOne(_, _)
RemoveOne(bigrams, x) ==
    IF bigrams = <<>> THEN <<>>
    ELSE IF Head(bigrams) = x THEN Tail(bigrams)
    ELSE <<Head(bigrams)>> \o RemoveOne(Tail(bigrams), x)

\* the bigrams of the second text that find an unused equal in the first
RECURSIVE IntersectionSize(_, _)
IntersectionSize(firstBigrams, secondBigrams) ==
    IF secondBigrams = <<>> THEN 0
    ELSE IF \E i \in 1..Len(firstBigrams) : firstBigrams[i] = Head(secondBigrams)
    THEN 1 + IntersectionSize(RemoveOne(firstBigrams, Head(secondBigrams)),
                              Tail(secondBigrams))
    ELSE IntersectionSize(firstBigrams, Tail(secondBigrams))

\* the Dice coefficient of two texts without white space, as a fraction
DiceCoefficient(first, second) ==
    IF first = second THEN [num |-> 1, den |-> 1]
    ELSE IF Len(first) < 2 \/ Len(second) < 2 THEN [num |-> 0, den |-> 1]
    ELSE [num |-> 2 * IntersectionSize(Bigrams(first), Bigrams(second)),
          den |-> Len(first) + Len(second) - 2]

\* stringSimilarity.compareTwoStrings of the string-similarity package
compareTwoStrings(first, second) ==
    DiceCoefficient(RemoveChars(first, {" ", "TAB", "NL", "CR"}),
                    RemoveChars(second, {" ", "TAB", "NL", "CR"}))

MeetsThreshold_Below(similarity, threshold) ==
    similarity.num * 100 <= threshold * similarity.den

\* similarity >= threshold, the threshold in hundredths
MeetsThreshold(similarity, threshold) ==
    similarity.num * 100 >= threshold * similarity.den

\* the keys of an object that are array indices: Object.keys lists them
\* first, in ascending order
IsArrayIndex(key) ==
    /\ key # <<>>
    /\ \A i \in 1..Len(key) : IsDigit(key[i])
    /\ Len(key) > 1 => key[1] # "0"

RECURSIVE InsertByNumber(_, _)
InsertByNumber(sorted, key) ==
    IF sorted = <<>> THEN <<key>>
    ELSE IF Number(sorted[Len(sorted)]) <= Number(key) THEN Append(sorted, key)
    ELSE Append(InsertByNumber(SubSeq(sorted, 1, Len(sorted) - 1), key),
                sorted[Len(sorted)])

\* Object.keys of an object whose keys were inserted in the order given
RECURSIVE IndexKeys(_)
IndexKeys(inserted) ==
    IF inserted = <<>> THEN <<>>
    ELSE IF IsArrayIndex(inserted[Len(inserted)])
    THEN InsertByNumber(IndexKeys(SubSeq(inserted, 1, Len(inserted) - 1)),
                        inserted[Len(inserted)])
    ELSE IndexKeys(SubSeq(inserted, 1, Len(inserted) - 1))

RECURSIVE OtherKeys(_)
OtherKeys(inserted) ==
    IF inserted = <<>> THEN <<>>
    ELSE IF IsArrayIndex(Head(inserted)) THEN OtherKeys(Tail(inserted))
    ELSE <<Head(inserted)>> \o OtherKeys(Tail(inserted))

ObjectKeys(inserted) == IndexKeys(inserted) \o OtherKeys(inserted)

\* [...new Set(array)]: the first occurrence of each element, in order
RECURSIVE SetOf(_)
SetOf(array) ==
    IF array = <<>> THEN <<>>
    ELSE LET rest == SetOf(SubSeq(array, 1, Len(array) - 1))
         IN  IF Contains(rest, array[Len(array)]) THEN rest
             ELSE Append(rest, array[Len(array)])

\* frequency[name] once the forEach of getMostFrequentName is over
Frequency(variations, name) ==
    Cardinality({i \in 1..Len(variations) : variations[i] = name})

\* keys.reduce((a, b) => frequency[a] > frequency[b] ? a : b), a being the
\* accumulator so far
RECURSIVE ReduceKeys(_, _, _)
ReduceKeys(variations, a, keys) ==
    IF keys = <<>> THEN a
    ELSE ReduceKeys(variations,
                    IF Frequency(variations, a) > Frequency(variations, Head(keys))
                    THEN a ELSE Head(keys),
                    Tail(keys))

\* (of a list that is not empty: reduce of no keys throws)
getMostFrequentName(variations) ==
    ReduceKeys(variations, Head(ObjectKeys(SetOf(variations))),
               Tail(ObjectKeys(SetOf(variations))))

getOriginalName(grp) == grp[1].name

IsCandidate_Later(otherIndex, index, done) == otherIndex > index

\* an index that the inner loop does not pass over
IsCandidate(otherIndex, index, done) ==
    ~(otherIndex <= index \/ otherIndex \in done)

cleanCurrentName_Last(playersArr, grp) == cleanName(playersArr[grp[Len(grp)]].name)

\* cleanName(player.name), player being the one the group was opened with
cleanCurrentName(playersArr, grp) == cleanName(playersArr[grp[1]].name)

cleanOtherName_Raw(playersArr, otherIndex) ==
    toLowerCase(playersArr[otherIndex].name)

cleanOtherName(playersArr, otherIndex) == cleanName(playersArr[otherIndex].name)

\* the inner forEach of groupSimilarPlayers from otherIndex on: the players
\* pushed to the group of the player at index
RECURSIVE ScanOthers(_, _, _, _, _)
ScanOthers(playersArr, index, otherIndex, done, minimum) ==
    IF otherIndex > Len(playersArr) THEN <<>>
    ELSE IF /\ IsCandidate(otherIndex, index, done)
            /\ MeetsThreshold(
                  compareTwoStrings(cleanCurrentName(playersArr, <<index>>),
                                    cleanOtherName(playersArr, otherIndex)),
                  minimum)
    THEN <<otherIndex>>
            \o ScanOthers(playersArr, index, otherIndex + 1, done, minimum)
    ELSE ScanOthers(playersArr, index, otherIndex + 1, done, minimum)

\* the outer forEach of groupSimilarPlayers from index on: the groups pushed
RECURSIVE ScanPlayers(_, _, _, _)
ScanPlayers(playersArr, index, done, minimum) ==
    IF index > Len(playersArr) THEN <<>>
    ELSE IF index \in done
    THEN ScanPlayers(playersArr, index + 1, done, minimum)
    ELSE <<<<index>> \o ScanOthers(playersArr, index, 1, done, minimum)>>
            \o ScanPlayers(playersArr, index + 1,
                           done \cup {index}
                              \cup Elements(ScanOthers(playersArr, index, 1,
                                                       done, minimum)),
                           minimum)

\* groupSimilarPlayers(players) with the threshold of a level, the groups
\* as lists of places in the array
groupSimilarPlayers(playersArr, lvl) ==
    ScanPlayers(playersArr, 1, {}, SIMILARITY_THRESHOLDS[lvl])

\* player.variations || [player.name]
variationsOf(player) ==
    IF "variations" \in DOMAIN player THEN player.variations
    ELSE <<player.name>>

RECURSIVE allVariations(_)
allVariations(grp) ==
    IF grp = <<>> THEN <<>>
    ELSE allVariations(SubSeq(grp, 1, Len(grp) - 1)) \o variationsOf(grp[Len(grp)])

RECURSIVE totalAttendance(_)
totalAttendance(grp) ==
    IF grp = <<>> THEN 0
    ELSE totalAttendance(SubSeq(grp, 1, Len(grp) - 1)) + grp[Len(grp)].attendance

uniqueVariations_Repeated(variations) == variations

uniqueVariations(variations) == SetOf(variations)

\* the object consolidateGroup returns (the events the older revision
\* gathers are not part of it)
ConsolidatedPlayer(scr, grp, unique) ==
    [name |-> IF scr = "5-final-grouping" THEN getMostFrequentName(unique)
              ELSE getOriginalName(grp),
     totalAttendance |-> totalAttendance(grp),
     variations |-> join(unique, <<","," ">>)]

consolidateGroup(scr, grp) ==
    ConsolidatedPlayer(scr, grp, uniqueVariations(allVariations(grp)))

\* a group holds references to players: their places in the array
MembersOf(playersArr, grp) ==
    SubSeq([k \in 1..Len(grp) |-> playersArr[grp[k]]], 1, Len(grp))

\* groups.map(consolidateGroup)
consolidatedPlayers(scr, playersArr, grps) ==
    SubSeq([g \in 1..Len(grps) |->
               consolidateGroup(scr, MembersOf(playersArr, grps[g]))],
           1, Len(grps))

\* consolidatedPlayers.filter(player => player.totalAttendance >= MIN_ATTENDANCE)
RECURSIVE filteredPlayers_Above(_)
filteredPlayers_Above(rows) ==
    IF rows = <<>> THEN <<>>
    ELSE IF Head(rows).totalAttendance > MIN_ATTENDANCE
    THEN <<Head(rows)>> \o filteredPlayers_Above(Tail(rows))
    ELSE filteredPlayers_Above(Tail(rows))

RECURSIVE filteredPlayers(_)
filteredPlayers(rows) ==
    IF rows = <<>> THEN <<>>
    ELSE IF Head(rows).totalAttendance >= MIN_ATTENDANCE
    THEN <<Head(rows)>> \o filteredPlayers(Tail(rows))
    ELSE filteredPlayers(Tail(rows))

\* sort((a, b) => b.totalAttendance - a.totalAttendance), a stable sort
RECURSIVE InsertByTotal(_, _)
InsertByTotal(sorted, x) ==
    IF sorted = <<>> THEN <<x>>
    ELSE IF sorted[Len(sorted)].totalAttendance >= x.totalAttendance
    THEN Append(sorted, x)
    ELSE Append(InsertByTotal(SubSeq(sorted, 1, Len(sorted) - 1), x),
                sorted[Len(sorted)])

RECURSIVE SortByTotal(_)
SortByTotal(rows) ==
    IF rows = <<>> THEN <<>>
    ELSE InsertByTotal(SortByTotal(SubSeq(rows, 1, Len(rows) - 1)),
                       rows[Len(rows)])

\* the records written to the CSV file
WrittenRecords(scr, rows) ==
    SortByTotal(IF scr = "4-final-grouping" THEN filteredPlayers(rows) ELSE rows)

\* !jsonData.rankings || jsonData.rankings.length === 0: nothing is written
GroupNoRankings ==
    /\ pcGroup = "read"
    /\ players = <<>>
    /\ pcGroup' = "done"
    /\ UNCHANGED <<script, simLevel, players, grpIndex, grpOther, group,
                   groups, processed, consolidated, finalPlayers>>
    /\ UNCHANGED <<varsParse, varsFilter, varsStats, varsStamp, varsName,
                   varsExtract>>

GroupBegin ==
    /\ pcGroup = "read"
    /\ players # <<>>
    /\ pcGroup' = "group"
    /\ grpIndex' = 1
    /\ UNCHANGED <<script, simLevel, players, grpOther, group, groups,
                   processed, consolidated, finalPlayers>>
    /\ UNCHANGED <<varsParse, varsFilter, varsStats, varsStamp, varsName,
                   varsExtract>>

InOuterLoop == pcGroup = "group" /\ grpOther = 0 /\ grpIndex <= Len(players)

InInnerLoop == pcGroup = "group" /\ grpOther >= 1 /\ grpOther <= Len(players)

\* the outer forEach at a player that already belongs to a group
GroupProcessed ==
    /\ InOuterLoop
    /\ grpIndex \in processed
    /\ grpIndex' = grpIndex + 1
    /\ UNCHANGED <<script, simLevel, players, grpOther, group, groups,
                   processed, consolidated, finalPlayers, pcGroup>>
    /\ UNCHANGED <<varsParse, varsFilter, varsStats, varsStamp, varsName,
                   varsExtract>>

\* the outer forEach at a player that opens a group
GroupOpen ==
    /\ InOuterLoop
    /\ grpIndex \notin processed
    /\ group' = <<grpIndex>>
    /\ grpOther' = 1
    /\ UNCHANGED <<script, simLevel, players, grpIndex, groups, processed,
                   consolidated, finalPlayers, pcGroup>>
    /\ UNCHANGED <<varsParse, varsFilter, varsStats, varsStamp, varsName,
                   varsExtract>>

\* the inner forEach at a player it passes over
GroupPassOver ==
    /\ InInnerLoop
    /\ ~IsCandidate(grpOther, grpIndex, processed)
    /\ grpOther' = grpOther + 1
    /\ UNCHANGED <<script, simLevel, players, grpIndex, group, groups,
                   processed, consolidated, finalPlayers, pcGroup>>
    /\ UNCHANGED <<varsParse, varsFilter, varsStats, varsStamp, varsName,
                   varsExtract>>

\* the inner forEach at a player it compares
GroupCompare ==
    /\ InInnerLoop
    /\ IsCandidate(grpOther, grpIndex, processed)
    /\ IF MeetsThreshold(compareTwoStrings(cleanCurrentName(players, group),
                                            cleanOtherName(players, grpOther)),
                         SIMILARITY_THRESHOLDS[simLevel])
       THEN /\ group' = Append(group, grpOther)
            /\ processed' = processed \cup {grpOther}
       ELSE UNCHANGED <<group, processed>>
    /\ grpOther' = grpOther + 1
    /\ UNCHANGED <<script, simLevel, players, grpIndex, groups, consolidated,
                   finalPlayers, pcGroup>>
    /\ UNCHANGED <<varsParse, varsFilter, varsStats, varsStamp, varsName,
                   varsExtract>>

\* the inner forEach is over: groups.push(group); processed.add(index)
GroupPush ==
    /\ pcGroup = "group"
    /\ grpOther > Len(players)
    /\ groups' = Append(groups, group)
    /\ processed' = processed \cup {grpIndex}
    /\ group' = <<>>
    /\ grpOther' = 0
    /\ grpIndex' = grpIndex + 1
    /\ UNCHANGED <<script, simLevel, players, consolidated, finalPlayers,
                   pcGroup>>
    /\ UNCHANGED <<varsParse, varsFilter, varsStats, varsStamp, varsName,
                   varsExtract>>

\* the outer forEach is over: the groups are consolidated, filtered (older
\* revision), sorted and written
GroupConsolidate ==
    /\ pcGroup = "group"
    /\ grpOther = 0
    /\ grpIndex > Len(players)
    /\ consolidated' = consolidatedPlayers(script, players, groups)
    /\ finalPlayers' =
          WrittenRecords(script, consolidatedPlayers(script, players, groups))
    /\ pcGroup' = "done"
    /\ UNCHANGED <<script, simLevel, players, grpIndex, grpOther, group,
                   groups, processed>>
    /\ UNCHANGED <<varsParse, varsFilter, varsStats, varsStamp, varsName,
                   varsExtract>>

NextGroup ==
    \/ GroupNoRankings
    \/ GroupBegin
    \/ GroupProcessed
    \/ GroupOpen
    \/ GroupPassOver
    \/ GroupCompare
    \/ GroupPush
    \/ GroupConsolidate

\* the rankings the script reads: at most MaxPlayers players, one per name
MaxPlayers == 3

Ranked(name, attendance, variations) ==
    [name |-> name, attendance |-> attendance, variations |-> variations]

GroupRankings ==
    {Ranked(<<"C","r","i","s","t","i","a","n">>, 3, <<<<"C","r","i","s","t","i","a","n">>, <<"c","r","i","s","t","i","a","n">>>>),
     Ranked(<<"C","h","r","i","s","t","i","a","n">>, 3, <<<<"C","h","r","i","s","t","i","a","n">>, <<"c","r","i","s","t","i","a","n">>, <<"C","r","i","s","t","i","a","n">>>>),
     Ranked(<<"C","h","r","i","s","t","i","a","n","o">>, 2, <<<<"C","h","r","i","s","t","i","a","n","o">>>>),
     Ranked(<<"J","o","s","é">>, 2, <<<<"J","o","s","é">>, <<"7">>>>),
     Ranked(<<"J","o","s","e"," ","uD83D","uDD25">>, 1, <<<<"J","o","s","e"," ","uD83D","uDD25">>>>),
     [name |-> <<"J","o"," ","S","e">>, attendance |-> 1],
     Ranked(<<"Ñ">>, 1, <<<<"Ñ">>>>),
     Ranked(<<"N",".">>, 2, <<<<"N",".">>>>)}

\* the levels of the configuration: the scripts have SIMILARITY_LEVEL, of
\* type 1 | 2 | 3, set to 2
SimilarityLevels == DOMAIN SIMILARITY_THRESHOLDS

InitGroup ==
    /\ script \in Scripts
    /\ simLevel \in SimilarityLevels
    /\ players \in {ps \in SeqsUpTo(GroupRankings, MaxPlayers) : NoRepeats(ps)}
    /\ grpIndex = 0
    /\ grpOther = 0
    /\ group = <<>>
    /\ groups = <<>>
    /\ processed = {}
    /\ consolidated = <<>>
    /\ finalPlayers = <<>>
    /\ pcGroup = "read"
    /\ IdleParse /\ IdleFilter /\ IdleStats /\ IdleStamp /\ IdleName /\ IdleExtract

SpecGroup == InitGroup /\ [][NextGroup]_vars

-----------------------------------------------------------------------------
(* Properties of the similarity clustering                                 *)

GroupsDone == pcGroup = "done" /\ players # <<>>

RECURSIVE Concat(_)
Concat(lists) ==
    IF lists = <<>> THEN <<>> ELSE Head(lists) \o Concat(Tail(lists))

\* the variation lists of the members of a group, in the order of the group
\* (a member without a list counts with its name)
VariationLists(g) ==
    [k \in 1..Len(groups[g]) |-> variationsOf(players[groups[g][k]])]

RawVariations(g) == Concat(VariationLists(g))

FirstPlaces(array) ==
    {i \in 1..Len(array) : \A j \in 1..(i - 1) : array[j] # array[i]}

\* the elements of the array without repeats, in order of first occurrence
FirstOccurrences(array) ==
    [k \in 1..Cardinality(FirstPlaces(array)) |->
        array[CHOOSE i \in FirstPlaces(array) :
                 Cardinality({j \in FirstPlaces(array) : j <= i}) = k]]

RECURSIVE AttendanceOf(_)
AttendanceOf(members) ==
    IF members = {} THEN 0
    ELSE LET m == CHOOSE x \in members : TRUE
         IN  players[m].attendance + AttendanceOf(members \ {m})

\* C5: when the groups are consolidated (either revision), every group's
\* totalAttendance is the sum of its members' attendance, and its variations
\* are the members' variation lists, members in the order of the group,
\* without repeats and in order of first occurrence (joined with ", ").
C5_MergedTotals ==
    GroupsDone =>
        /\ Len(consolidated) = Len(groups)
        /\ \A g \in 1..Len(groups) :
              /\ consolidated[g].totalAttendance =
                    AttendanceOf(Elements(groups[g]))
              /\ consolidated[g].variations =
                    join(FirstOccurrences(RawVariations(g)), <<","," ">>)

C5_Witness ==
    /\ GroupsDone
    /\ \E g \in 1..Len(groups) :
          /\ Len(groups[g]) >= 2
          /\ ~NoRepeats(RawVariations(g))
          /\ consolidated[g].totalAttendance > players[groups[g][1]].attendance
          /\ consolidated[g].variations =
                <<"C","r","i","s","t","i","a","n",","," ","c","r","i","s","t","i","a","n",","," ","C","h","r","i","s","t","i","a","n">>

ComparisonKey(i) == cleanName(players[i].name)

Similar(i, j) ==
    MeetsThreshold(compareTwoStrings(ComparisonKey(i), ComparisonKey(j)),
                   SIMILARITY_THRESHOLDS[simLevel])

Seed(g) == groups[g][1]

\* j was put in a group before the seed of group g was scanned
AssignedBefore(g, j) == \E h \in 1..(g - 1) : j \in Elements(groups[h])

\* C6: when the grouping is over, an identity j other than the seed i of a
\* group belongs to that group iff it comes after i, was unassigned when i
\* was scanned, and its comparison key is similar to the key of i; every
\* identity is in exactly one group and every seed was unassigned.
C6_SeedOnly ==
    GroupsDone =>
        /\ \A g \in 1..Len(groups) :
              /\ ~AssignedBefore(g, Seed(g))
              /\ \A j \in (1..Len(players)) \ {Seed(g)} :
                    j \in Elements(groups[g]) <=>
                        /\ j > Seed(g)
                        /\ ~AssignedBefore(g, j)
                        /\ Similar(Seed(g), j)
        /\ \A j \in 1..Len(players) :
              \E g \in 1..Len(groups) : j \in Elements(groups[g])

\* an identity similar to a member but not to the seed stays out
C6_Witness ==
    /\ GroupsDone
    /\ \E g \in 1..Len(groups) :
       \E m \in Elements(groups[g]) \ {Seed(g)} :
       \E x \in (1..Len(players)) \ Elements(groups[g]) :
          /\ x > m
          /\ ~AssignedBefore(g, x)
          /\ Similar(m, x)
          /\ ~Similar(Seed(g), x)

Occurrences(array, x) == Cardinality({i \in 1..Len(array) : array[i] = x})

\* the element that occurs most often; of those that tie, the first
MostFrequentFirst(array) ==
    array[CHOOSE i \in FirstPlaces(array) :
             \A j \in FirstPlaces(array) :
                \/ Occurrences(array, array[i]) > Occurrences(array, array[j])
                \/ /\ Occurrences(array, array[i]) = Occurrences(array, array[j])
                   /\ i <= j]

\* C7: under the most-frequent policy (5-final-grouping) the name of every
\* consolidated group is the string that occurs most often among its
\* members' raw variations, the first of them in the unioned order when
\* several tie.
C7_MostFrequentName ==
    (GroupsDone /\ script = "5-final-grouping") =>
        \A g \in 1..Len(groups) :
            consolidated[g].name = MostFrequentFirst(RawVariations(g))


\* the consolidated groups that the final list is to hold: under
\* 4-final-grouping those whose merged total reaches MIN_ATTENDANCE, under
\* 5-final-grouping, which has no minimum, all of them
GroupsKept ==
    {g \in 1..Len(consolidated) :
        \/ script = "5-final-grouping"
        \/ consolidated[g].totalAttendance >= MIN_ATTENDANCE}

\* f gives, for each place of the final list, the group it holds: each group
\* kept once, totals non-increasing, equal totals in the order of the groups
ListsKept(f) ==
    /\ {f[i] : i \in 1..Len(finalPlayers)} = GroupsKept
    /\ \A i \in 1..Len(finalPlayers) : finalPlayers[i] = consolidated[f[i]]
    /\ \A a, b \in 1..Len(finalPlayers) :
          a < b =>
             /\ finalPlayers[a].totalAttendance >= finalPlayers[b].totalAttendance
             /\ finalPlayers[a].totalAttendance = finalPlayers[b].totalAttendance
                   => f[a] < f[b]

\* C20: the final list holds exactly the consolidated identities whose
\* merged totalAttendance is at least the minimum (MIN_ATTENDANCE = 2 in
\* 4-final-grouping; all of them where there is no minimum), in
\* non-increasing order of totalAttendance, equal totals in the order of the
\* groups.
C20_MinimumAttendance ==
    GroupsDone =>
        /\ Len(finalPlayers) = Cardinality(GroupsKept)
        /\ \E f \in [1..Len(finalPlayers) -> GroupsKept] : ListsKept(f)

\* under the minimum: a group of two identities of attendance 1 each is in
\* the final list with total 2, after a group of a larger total that was
\* formed later
C20_Witness ==
    /\ GroupsDone
    /\ script = "4-final-grouping"
    /\ Len(groups) = 2 /\ Len(groups[1]) = 2
    /\ \A m \in Elements(groups[1]) : players[m].attendance = 1
    /\ Len(finalPlayers) = 2
    /\ finalPlayers[2] = consolidated[1]
    /\ finalPlayers[2].totalAttendance = 2
    /\ finalPlayers[1].totalAttendance > 2

\* the groups that hold identity j
GroupsOf(j) == {g \in 1..Len(groups) : j \in Elements(groups[g])}

RECURSIVE SumTotals(_)
SumTotals(rows) ==
    IF rows = <<>> THEN 0
    ELSE Head(rows).totalAttendance + SumTotals(Tail(rows))

\* the level that the scripts are configured with
IsConfigured == simLevel = SIMILARITY_LEVEL

\* C25: when the grouping is over, every identity is in exactly one group,
\* once; every group is non-empty and its first member, the seed, has the
\* lowest index of the group; the groups are in the order of their seeds;
\* and the totals of the consolidated groups, before any minimum is applied,
\* add up to the attendance of all identities.
C25_Partition ==
    GroupsDone =>
        /\ \A j \in 1..Len(players) : Cardinality(GroupsOf(j)) = 1
        /\ \A g \in 1..Len(groups) :
              /\ groups[g] # <<>>
              /\ NoRepeats(groups[g])
              /\ Elements(groups[g]) \subseteq 1..Len(players)
              /\ \A m \in Elements(groups[g]) : Seed(g) <= m
        /\ \A g, h \in 1..Len(groups) : g < h => Seed(g) < Seed(h)
        /\ SumTotals(consolidated) = AttendanceOf(1..Len(players))

\* at the configured level, three identities in two groups, the second
\* identity a group of its own between the two members of the first
C25_Witness ==
    /\ GroupsDone
    /\ IsConfigured
    /\ groups = <<<<1, 3>>, <<2>>>>
    /\ SumTotals(consolidated) = AttendanceOf({1, 2, 3})
    /\ consolidated[1].totalAttendance =
          players[1].attendance + players[3].attendance

\* C26: two identities whose names have the same comparison key are in the
\* same group when the grouping is over, at each of the three levels and in
\* every order of the identities.
C26_SameKeyTogether ==
    GroupsDone =>
        \A i, j \in 1..Len(players) :
            ComparisonKey(i) = ComparisonKey(j) => GroupsOf(i) = GroupsOf(j)

\* at the strict level, two names that differ and whose key is the same
\* single letter are in one group, an identity of another group standing
\* between them
C26_Witness ==
    /\ GroupsDone
    /\ simLevel = 1
    /\ Len(players) = 3
    /\ players[1].name # players[3].name
    /\ ComparisonKey(1) = ComparisonKey(3) /\ Len(ComparisonKey(1)) = 1
    /\ groups = <<<<1, 3>>, <<2>>>>

\* the groups that groupSimilarPlayers returns for the same list at a level
GroupsAt(lvl) == groupSimilarPlayers(players, lvl)

SameGroupAt(i, j, lvl) ==
    \E g \in 1..Len(GroupsAt(lvl)) : {i, j} \subseteq Elements(GroupsAt(lvl)[g])

\* the levels whose threshold is below that of the grouping
MoreFlexible == {lvl \in SimilarityLevels : lvl > simLevel}

\* C27 as stated: two identities that the grouping at the strict level
\* (0.90) has put in the same group are in the same group of the same list
\* at the levels 0.80 and 0.70.
C27_PairsStayMerged ==
    (GroupsDone /\ simLevel = 1) =>
        \A i, j \in 1..Len(players) :
            GroupsOf(i) = GroupsOf(j) =>
               \A lvl \in MoreFlexible : SameGroupAt(i, j, lvl)

\* C27 (as the code has it): the groups are those of groupSimilarPlayers
\* at the level of the grouping, and every identity in the group of the
\* first identity of the list is in the group of the first identity at
\* every more flexible level.
C27_FirstGroupGrows ==
    GroupsDone =>
        /\ groups = GroupsAt(simLevel)
        /\ \A lvl \in MoreFlexible :
              Elements(groups[1]) \subseteq Elements(GroupsAt(lvl)[1])

\* at the strict level the first identity has one of the two others in its
\* group, at the moderate level both
C27_Witness ==
    /\ GroupsDone
    /\ simLevel = 1
    /\ groups = <<<<1, 2>>, <<3>>>>
    /\ GroupsAt(2) = <<<<1, 2, 3>>>>
-----------------------------------------------------------------------------
(* MessageFilter.parseTimestamp called on one timestamp text               *)

\* the decimal digits of n, and n written with at least two digits
RECURSIVE Decimal(_)

Decimal(n) ==
    IF n < 10 THEN <<Digits[n + 1]>>
    ELSE Decimal(n \div 10) \o <<Digits[(n % 10) + 1]>>

TwoDigits(n) == IF n < 10 THEN <<"0">> \o Decimal(n) ELSE Decimal(n)

\* what a timestamp is written from: the date, the hour and whether it is
\* padded, the minutes, the seconds (-1: none), the marker (empty: none)
StampDates == {<<"2","5","/","0","7","/","2","5">>, <<"LRM","1","/","8","/","2","0","2","5">>, <<"2","/","1","/","2","6">>}

StampHours == {0, 1, 9, 11, 12, 13, 23, 24, 99}

StampMinutes == {5, 13}

StampSeconds == {-1, 0, 12}

StampMarkers == {<<>>, <<" ","p","."," ","m",".">>, <<" ","a","."," ","m",".">>, <<"P","M">>, <<" ","a",".","m">>}

StampParts ==
    [date : StampDates, hour : StampHours, padded : BOOLEAN,
     minutes : StampMinutes, seconds : StampSeconds, marker : StampMarkers]

WrittenHour(w) == IF w.padded THEN TwoDigits(w.hour) ELSE Decimal(w.hour)

WrittenTime(w) ==
    WrittenHour(w) \o <<":">> \o TwoDigits(w.minutes)
        \o (IF w.seconds < 0 THEN <<>> ELSE <<":">> \o TwoDigits(w.seconds))

Written(w) == w.date \o <<","," ">> \o WrittenTime(w) \o w.marker

\* texts of other kinds: a date alone, a time that is not of the four formats
StampOthers ==
    {<<"2","5","/","0","7","/","2","5">>, <<"LRM","1","/","8","/","2","0","2","5"," ">>, <<"2","5","/","0","7","/","2","5",","," ","1","3","h","0","5">>, <<"2","5","-","0","7","-","2","5">>,
     <<"2","5","/","0","7","/","2","5"," ","1","2",":","1","3",":","1","2">>, <<>>}

\* six times of one day, from just after midnight to just before the next
StampExamples ==
    <<<<"2","5","/","0","7","/","2","5",","," ","1","2",":","3","0"," ","a","."," ","m",".">>, <<"2","5","/","0","7","/","2","5",","," ","1",":","0","0"," ","a","."," ","m",".">>,
      <<"2","5","/","0","7","/","2","5",","," ","1","1",":","5","9"," ","a","."," ","m",".">>, <<"2","5","/","0","7","/","2","5",","," ","1","2",":","0","0"," ","p","."," ","m",".">>,
      <<"2","5","/","0","7","/","2","5",","," ","1",":","0","0"," ","p","."," ","m",".">>, <<"2","5","/","0","7","/","2","5",","," ","1","1",":","5","9"," ","p","."," ","m",".">>>>

StampTexts ==
    {Written(w) : w \in StampParts} \cup StampOthers
        \cup {StampExamples[k] : k \in DOMAIN StampExamples}

\* what new Date() may return in the fallback
StampNows ==
    {DateValue(2026, 10, 3, 0, 0, 0), DateValue(2026, 10, 3, 0, 0, 1)}

InitStamp ==
    /\ tsInput \in StampTexts
    /\ tsOutput = <<>>
    /\ pcStamp = "call"
    /\ IdleParse /\ IdleFilter /\ IdleStats /\ IdleGroup /\ IdleName /\ IdleExtract

\* the Date returned for a match: the fields passed to the constructor, its
\* value, and what its getHours() returns
DateOf(fields) ==
    [matched |-> TRUE, hours |-> fields.hours, minutes |-> fields.minutes,
     seconds |-> fields.seconds, time |-> fields.time,
     getHours |-> DateHours(fields.hours, fields.minutes, fields.seconds)]

\* a format matches: return new Date(fullYear, month - 1, day, hours,
\* minutes, seconds)
StampMatch ==
    /\ pcStamp = "call"
    /\ Parses(tsInput)
    /\ tsOutput' = DateOf(parseTimestampFields(tsInput))
    /\ pcStamp' = "returned"
    /\ UNCHANGED tsInput
    /\ UNCHANGED <<varsParse, varsFilter, varsStats, varsGroup, varsName,
                   varsExtract>>

\* no format matches: console.warn and return new Date()
StampFallback ==
    /\ pcStamp = "call"
    /\ ~Parses(tsInput)
    /\ \E now \in StampNows :
          tsOutput' = [matched |-> FALSE,
                       time |-> parseTimestamp(tsInput, now)]
    /\ pcStamp' = "returned"
    /\ UNCHANGED tsInput
    /\ UNCHANGED <<varsParse, varsFilter, varsStats, varsGroup, varsName,
                   varsExtract>>

NextStamp == StampMatch \/ StampFallback

SpecStamp == InitStamp /\ [][NextStamp]_vars

-----------------------------------------------------------------------------
(* Properties of parseTimestamp                                            *)

StampReturned == pcStamp = "returned"

\* the parts that the text of the call is written from
WrittenAs(w) == Written(w) = tsInput

HasMarker(w, letter) == includes(toLowerCase(w.marker), <<letter>>)

\* the text has a time of one of the formats: a marker follows the time, or
\* the time has seconds
TimeFormat(w) == w.marker # <<>> \/ w.seconds >= 0

\* the hour that the AM/PM adjustment is to give for hour h
Meridiem(h, marker) ==
    IF includes(toLowerCase(marker), <<"p">>)
    THEN (IF h = 12 THEN 12 ELSE h + 12)
    ELSE IF includes(toLowerCase(marker), <<"a">>)
    THEN (IF h = 12 THEN 0 ELSE h)
    ELSE h

\* C11: for a text with a "p" marker the hour becomes h + 12 when h # 12 and
\* stays 12 when h = 12; for a text with an "a" marker the hour becomes 0
\* when h = 12 and stays h otherwise; "25/07/25, 12:13:12 p. m." gives hour
\* 12 and "25/07/25, 1:05:00 a. m." gives hour 1.
C11_MeridiemAdjustment ==
    StampReturned =>
        /\ \A w \in StampParts :
              WrittenAs(w) /\ w.marker # <<>> =>
                 /\ tsOutput.matched
                 /\ tsOutput.hours = Meridiem(w.hour, w.marker)
        /\ tsInput = <<"2","5","/","0","7","/","2","5",","," ","1","2",":","1","3",":","1","2"," ","p","."," ","m",".">> =>
              tsOutput.matched /\ tsOutput.getHours = 12
        /\ tsInput = <<"2","5","/","0","7","/","2","5",","," ","1",":","0","5",":","0","0"," ","a","."," ","m",".">> =>
              tsOutput.matched /\ tsOutput.getHours = 1

\* noon with a "p" marker is returned as hour 12
C11_Witness ==
    /\ StampReturned
    /\ \E w \in StampParts :
          WrittenAs(w) /\ HasMarker(w, "p") /\ w.hour = 12
    /\ tsOutput.matched /\ tsOutput.hours = 12 /\ tsOutput.getHours = 12

WellFormed(w) == w.hour \in 1..12 /\ w.marker # <<>>

\* the day a date of StampDates stands for, as year, month, day
CalendarDay(date) ==
    CASE date = <<"2","5","/","0","7","/","2","5">> -> <<2025, 7, 25>>
      [] date = <<"LRM","1","/","8","/","2","0","2","5">> -> <<2025, 8, 1>>
      [] date = <<"2","/","1","/","2","6">> -> <<2026, 1, 2>>

\* year, month, day, hour of the day, minute, second of a well-formed text
Moment(w) ==
    CalendarDay(w.date)
       \o <<Meridiem(w.hour, w.marker), w.minutes,
            IF w.seconds < 0 THEN 0 ELSE w.seconds>>

\* a comes before b, both lists of numbers of one length, the first number
\* counting most
RECURSIVE Precedes(_, _)
Precedes(a, b) ==
    /\ a # <<>>
    /\ \/ Head(a) < Head(b)
       \/ Head(a) = Head(b) /\ Precedes(Tail(a), Tail(b))

\* the instant that parseTimestamp returns for a text that matches
ParsedInstant(text) == parseTimestampFields(text).time

\* C29: for two well-formed texts of the 12-hour clock, the instant parsed
\* from the first is less than the instant parsed from the second exactly
\* when the first is the earlier in real time, dates read as day/month/year
\* and two-digit years as 2000 + year; of the six times of one day, 12:30
\* a. m., 1:00 a. m., 11:59 a. m., 12:00 p. m., 1:00 p. m., 11:59 p. m.,
\* each is less than those after it.
C29_OrderPreserved ==
    StampReturned =>
        /\ \A w1 \in StampParts :
              (WrittenAs(w1) /\ WellFormed(w1)) =>
                 /\ tsOutput.matched
                 /\ \A w2 \in {w \in StampParts : WellFormed(w)} :
                       tsOutput.time < ParsedInstant(Written(w2))
                          <=> Precedes(Moment(w1), Moment(w2))
        /\ \A k, m \in DOMAIN StampExamples :
              tsInput = StampExamples[k] =>
                 /\ tsOutput.matched
                 /\ tsOutput.time < ParsedInstant(StampExamples[m]) <=> k < m

\* 12:05 a. m. of 2 January 2026, written with a two-digit year, is returned
\* as hour 0 of a day after 1 August 2025 and before the 1:05 a. m. of its
\* own day
C29_Witness ==
    /\ StampReturned
    /\ tsInput = <<"2","/","1","/","2","6",","," ","1","2",":","0","5"," ","a","."," ","m",".">>
    /\ tsOutput.matched /\ tsOutput.hours = 0
    /\ tsOutput.time > ParsedInstant(<<"LRM","1","/","8","/","2","0","2","5",","," ","1","1",":","1","3",":","1","2"," ","p","."," ","m",".">>)
    /\ tsOutput.time < ParsedInstant(<<"2","/","1","/","2","6",","," ","1",":","0","5"," ","a","."," ","m",".">>)
-----------------------------------------------------------------------------
(* PlayerStatsAnalyzer.cleanPlayerName and normalizePlayerName called on   *)
(* one roster token, as processPlayers calls them                          *)

\* what a token is written from: what precedes the name, the name, and what
\* follows it
NamePrefixes == {<<>>, <<" "," ">>, <<"uD83D","uDD25">>}

PlainNames == {<<"M","o","i","s","e","s">>, <<"J","u","a","n"," ","P","é","r","e","z">>, <<"H","u","g","o">>, <<"D","i","e","g","o">>}

AliasSpellings == {<<"c","o","n","d","e">>, <<"C","o","n","d","e">>, <<"C","O","N","D","E">>, <<"K","e","n","y","i">>, <<"s","e","b","a","s","t","i","a","n">>}

NameBases == PlainNames \cup AliasSpellings \cup {<<"C","o","n","d","e","s">>, <<"m","a","r","i","a"," ","J","O","S","E">>, <<>>}

\* an annotation, a hyphen, a glyph, white space
RemovedSuffixes ==
    {<<>>, <<"(","4",")"," ">>, <<"-">>, <<"[","x","]">>, <<" ", "{", "y", "}">>, <<"u2B50">>}

GoSuffixes == {<<" ","g","o">>, <<" ","G","O"," ">>}

NameParts ==
    [prefix : NamePrefixes, base : NameBases,
     suffix : RemovedSuffixes \cup GoSuffixes]

Token(w) == w.prefix \o w.base \o w.suffix

NameTokens == {Token(w) : w \in NameParts}

InitName ==
    /\ nameInput \in NameTokens
    /\ nameCleaned = <<>>
    /\ nameOutput = <<>>
    /\ pcName = "clean"
    /\ IdleParse /\ IdleFilter /\ IdleStats /\ IdleGroup /\ IdleStamp /\ IdleExtract

\* const cleanName = this.cleanPlayerName(playerName)
NameClean ==
    /\ pcName = "clean"
    /\ nameCleaned' = cleanPlayerName(nameInput)
    /\ pcName' = "normalize"
    /\ UNCHANGED <<nameInput, nameOutput>>
    /\ UNCHANGED <<varsParse, varsFilter, varsStats, varsGroup, varsStamp,
                   varsExtract>>

\* const normalizedName = this.normalizePlayerName(cleanName);
\* if (!normalizedName) continue
NameNormalize ==
    /\ pcName = "normalize"
    /\ nameOutput' = normalizePlayerName(nameCleaned)
    /\ pcName' = IF normalizePlayerName(nameCleaned) = <<>>
                 THEN "discarded" ELSE "named"
    /\ UNCHANGED <<nameInput, nameCleaned>>
    /\ UNCHANGED <<varsParse, varsFilter, varsStats, varsGroup, varsStamp,
                   varsExtract>>

NextName == NameClean \/ NameNormalize

SpecName == InitName /\ [][NextName]_vars

-----------------------------------------------------------------------------
(* Properties of the names                                                 *)

NameDone == pcName \in {"named", "discarded"}

TokenOf(w) == Token(w) = nameInput

\* C15: cleaning removes annotations in parentheses, brackets and braces, a
\* trailing hyphen, the listed glyphs and the white space around, and leaves
\* the name otherwise as it is: "  Moises(4) " gives "Moises" and
\* "🔥Juan Pérez-" gives "Juan Pérez".
C15_NameKeptIntact ==
    NameDone =>
        /\ \A w \in NameParts :
              (TokenOf(w) /\ w.base \in PlainNames
                 /\ w.suffix \in RemovedSuffixes) =>
                 nameCleaned = w.base /\ nameOutput = w.base
        /\ nameInput = <<" "," ","M","o","i","s","e","s","(","4",")"," ">> => nameOutput = <<"M","o","i","s","e","s">>
        /\ nameInput = <<"uD83D","uDD25","J","u","a","n"," ","P","é","r","e","z","-">> =>
              nameOutput = <<"J","u","a","n"," ","P","é","r","e","z">>

\* C16: a trailing "go" is removed only when it is a word of its own: a
\* token whose last word ends in the letters "go" ("Hugo", "Diego") keeps
\* them and yields the full name; "Moises go" yields "Moises".
C16_StandaloneGoOnly ==
    NameDone =>
        \A w \in NameParts :
            (TokenOf(w) /\ w.base \in PlainNames) =>
               /\ w.suffix = <<>> => nameOutput = w.base
               /\ w.suffix \in GoSuffixes => nameOutput = w.base

\* the targets of the alias table
AliasTargets == {playerAliases[i].mainName : i \in 1..Len(playerAliases)}

\* the target the table gives for a key written in some letter case
TargetOf(spelling) ==
    playerAliases[CHOOSE i \in 1..Len(playerAliases) :
                     toLowerCase(playerAliases[i].alias)
                        = toLowerCase(spelling)].mainName

IsKey(name) ==
    \E i \in 1..Len(playerAliases) :
        toLowerCase(playerAliases[i].alias) = toLowerCase(name)

\* every word has its first letter in upper case and the others in lower
TitleCased(name) ==
    \A i \in 1..Len(name) :
        name[i] = IF i = 1 \/ name[i - 1] = " " THEN UpperChar(name[i])
                  ELSE LowerChar(name[i])

\* C17: a token that cleans to a key of the alias table, in any letter case,
\* resolves to that key's target ("conde", "Conde", "CONDE" to "Spectre"); a
\* cleaned token that is no key resolves to the cleaned text with each word
\* title-cased, never to an alias target.
C17_AliasResolution ==
    NameDone =>
        /\ \A w \in NameParts :
              (TokenOf(w) /\ w.base \in AliasSpellings) =>
                 nameOutput = TargetOf(w.base)
        /\ toLowerCase(nameInput) = <<"c","o","n","d","e">> => nameOutput = <<"S","p","e","c","t","r","e">>
        /\ ~IsKey(nameCleaned) =>
              /\ toLowerCase(nameOutput) = toLowerCase(nameCleaned)
              /\ TitleCased(nameOutput)
              /\ nameOutput \notin AliasTargets

\* "CONDE" followed by a glyph, between spaces, resolved to "Spectre"
C17_Witness ==
    /\ pcName = "named"
    /\ \E w \in NameParts :
          /\ TokenOf(w)
          /\ w.base = <<"C","O","N","D","E">> /\ w.suffix = <<"u2B50">> /\ w.prefix = <<" "," ">>
    /\ nameCleaned = <<"C","o","n","d","e">>
    /\ nameOutput = <<"S","p","e","c","t","r","e">>

-----------------------------------------------------------------------------
(* The loop over the lines of a message: MessageFilter.parseEventFromMessage *)
(* and WhatsAppParser.parsePlayerList                                        *)

Routines == {"parseEventFromMessage", "parsePlayerList"}

\* let eventName = '', dayOfWeek (date) = '', time = '', location = '';
\* const players = []
NoFields(rtn) ==
    IF rtn = "parseEventFromMessage"
    THEN [eventName |-> <<>>, dayOfWeek |-> <<>>, time |-> <<>>,
          location |-> <<>>, players |-> <<>>]
    ELSE [eventName |-> <<>>, date |-> <<>>, time |-> <<>>,
          location |-> <<>>, players |-> <<>>]

\* parsePlayerList: playerMatch[1].trim() is pushed unless it is "-"
PushListed(acc, playerName) ==
    IF playerName # <<"-">>
    THEN [acc EXCEPT !.players = Append(@, playerName)]
    ELSE acc

\* parsePlayerList: one turn of the loop for a line that is not empty
ListLine(acc, trimmedLine) ==
    IF includes(trimmedLine, <<"P","i","c","h","a","n","g","a">>) \/ includes(trimmedLine, <<"a","ñ","o"," ","n","u","e","v","o">>)
    THEN [acc EXCEPT !.eventName = trimmedLine]
    ELSE IF startsWith(trimmedLine, <<"D","í","a",":">>)
    THEN [acc EXCEPT !.date = trim(ReplaceFirst(trimmedLine, <<"D","í","a",":">>, FALSE))]
    ELSE IF startsWith(trimmedLine, <<"H","o","r","a",":">>)
    THEN [acc EXCEPT !.time = trim(ReplaceFirst(trimmedLine, <<"H","o","r","a",":">>, FALSE))]
    ELSE IF startsWith(trimmedLine, <<"L","u","g","a","r",":">>)
    THEN [acc EXCEPT !.location =
                        trim(ReplaceFirst(trimmedLine, <<"L","u","g","a","r",":">>, FALSE))]
    ELSE IF /\ DigitRun(trimmedLine, 1) >= 1
            /\ MatchesAt(trimmedLine, <<".">>, DigitRun(trimmedLine, 1) + 1)
            /\ PlayerCapture(trimmedLine) # <<>>
    THEN PushListed(acc, trim(PlayerCapture(trimmedLine)))
    ELSE acc

InLines == pcExtract = "lines" /\ lineNo <= Len(msgLines)

\* if (!trimmedLine) continue
ExtractBlank ==
    /\ InLines
    /\ trim(msgLines[lineNo]) = <<>>
    /\ lineNo' = lineNo + 1
    /\ UNCHANGED <<routine, msgLines, extracted, pcExtract>>
    /\ UNCHANGED <<varsParse, varsFilter, varsStats, varsGroup, varsStamp,
                   varsName>>

\* parseEventFromMessage at a line that is not empty
ExtractEventLine ==
    /\ InLines
    /\ routine = "parseEventFromMessage"
    /\ trim(msgLines[lineNo]) # <<>>
    /\ extracted' = ExtractLine(extracted, msgLines[lineNo])
    /\ lineNo' = lineNo + 1
    /\ UNCHANGED <<routine, msgLines, pcExtract>>
    /\ UNCHANGED <<varsParse, varsFilter, varsStats, varsGroup, varsStamp,
                   varsName>>

\* parsePlayerList at a line that is not empty
ExtractListLine ==
    /\ InLines
    /\ routine = "parsePlayerList"
    /\ trim(msgLines[lineNo]) # <<>>
    /\ extracted' = ListLine(extracted, trim(msgLines[lineNo]))
    /\ lineNo' = lineNo + 1
    /\ UNCHANGED <<routine, msgLines, pcExtract>>
    /\ UNCHANGED <<varsParse, varsFilter, varsStats, varsGroup, varsStamp,
                   varsName>>

\* the loop is over: parseEventFromMessage returns null unless the day is
\* allowed, parsePlayerList returns what it found
ExtractReturn ==
    /\ pcExtract = "lines"
    /\ lineNo > Len(msgLines)
    /\ pcExtract' = IF /\ routine = "parseEventFromMessage"
                       /\ ~isAllowedDay(extracted.dayOfWeek)
                    THEN "null" ELSE "returned"
    /\ UNCHANGED <<routine, msgLines, lineNo, extracted>>
    /\ UNCHANGED <<varsParse, varsFilter, varsStats, varsGroup, varsStamp,
                   varsName>>

NextExtract ==
    \/ ExtractBlank
    \/ ExtractEventLine
    \/ ExtractListLine
    \/ ExtractReturn

\* the lines of a content: at most MaxContent of them
MaxContent == 2

KeywordLines ==
    {<<"P","i","c","h","a","n","g","a"," ","v","i","e","r","n","e","s">>, <<"3","."," ","P","i","p","i">>, <<"D","í","a",":"," ","p","i","c","h","a","n","g","a">>,
     <<"L","u","g","a","r",":"," ","P","i","c","h","a","n","g","a"," ","F","C">>, <<"2","."," ","a","ñ","o"," ","n","u","e","v","o">>}

LabelLines ==
    {<<"D","í","a",":"," ","v","i","e","r","n","e","s">>, <<" ","d","í","a",":"," ","M","i","é","r","c","o","l","e","s"," ">>, <<"H","o","r","a",":"," ","9",":","0","0">>, <<"H","O","R","A",":","8">>,
     <<"L","u","g","a","r",":"," ","P","o","t","o","k","a","r">>}

PlayerLines ==
    {<<"1","."," ","-"," ","A","l","e","x">>, <<"2","."," ","M","o","i","s","e","s","(","4",")">>, <<"1","0","."," "," ","-"," "," ","J","u","a","n"," ","P","é","r","e","z"," ">>,
     <<"3",".","B","o"," ","LRM","<","S","e"," ","e","d","i","t","ó"," ","e","s","t","e"," ","m","e","n","s","a","j","e",".",">">>, <<"4","."," ","-">>, <<"5",".">>,
     <<"6","."," ","-"," ","LRM","<","x",">">>, <<"7","."," ","A","l"," ","LRM","<","a",">"," ","y"," ","B","o"," ","LRM","<","b",">">>, <<"8","."," ","H","o","r","a",":"," ","9">>}

OtherLines == {<<"L","i","s","t","a">>, <<"x"," ","1","."," ","A","l">>, <<>>, <<" "," ">>}

ContentLines == KeywordLines \cup LabelLines \cup PlayerLines \cup OtherLines

\* message.content.split('\n') has one line at least
InitExtract ==
    /\ routine \in Routines
    /\ msgLines \in SeqsUpTo(ContentLines, MaxContent) \ {<<>>}
    /\ lineNo = 1
    /\ extracted = NoFields(routine)
    /\ pcExtract = "lines"
    /\ IdleParse /\ IdleFilter /\ IdleStats /\ IdleGroup /\ IdleStamp /\ IdleName

SpecExtract == InitExtract /\ [][NextExtract]_vars

-----------------------------------------------------------------------------
(* Properties of the extraction                                            *)

\* the line that the next turn of the loop reads, trimmed
LineRead == trim(msgLines[lineNo])

\* the line as the tests of the routine see it
Folded(text) ==
    IF routine = "parseEventFromMessage" THEN toLowerCase(text) ELSE text

Keywords ==
    IF routine = "parseEventFromMessage" THEN {<<"p","i","c","h","a","n","g","a">>, <<"i","p","i">>}
    ELSE {<<"P","i","c","h","a","n","g","a">>, <<"a","ñ","o"," ","n","u","e","v","o">>}

\* the label of a field, and the name the routine has for the field
LabelOf(rule) ==
    Folded(CASE rule = "day" -> <<"D","í","a",":">>
             [] rule = "time" -> <<"H","o","r","a",":">>
             [] rule = "location" -> <<"L","u","g","a","r",":">>)

FieldOf(rule) ==
    CASE rule = "keyword" -> "eventName"
      [] rule = "day" ->
            IF routine = "parseEventFromMessage" THEN "dayOfWeek" ELSE "date"
      [] rule = "time" -> "time"
      [] rule = "location" -> "location"
      [] rule = "player" -> "players"
      [] rule = "none" -> "none"

HasKeyword(text) == \E k \in Keywords : includes(Folded(text), k)

HasLabel(text, rule) == startsWith(Folded(text), LabelOf(rule))

\* the line begins with digits and a full stop
IsNumbered(text) ==
    \E n \in 1..Len(text) :
        /\ \A i \in 1..n : IsDigit(text[i])
        /\ n < Len(text) + 1 /\ MatchesAt(text, <<".">>, n + 1)

\* the rule a line falls under, the first that applies counting
RuleOf(text) ==
    IF HasKeyword(text) THEN "keyword"
    ELSE IF HasLabel(text, "day") THEN "day"
    ELSE IF HasLabel(text, "time") THEN "time"
    ELSE IF HasLabel(text, "location") THEN "location"
    ELSE IF IsNumbered(text) THEN "player"
    ELSE "none"

\* what follows the label of a line that starts with it
AfterLabel(text, rule) == trim(From(text, Len(LabelOf(rule)) + 1))

\* the turn of the loop leaves every field but that of the rule as it was
OnlyField(rule) ==
    \A f \in DOMAIN extracted : f # FieldOf(rule) => extracted'[f] = extracted[f]

\* C22: each line that is not empty is handled by one rule, the first that
\* applies of keyword, day label, time label, location label, numbered
\* line: a line with a keyword sets the event name to the line and nothing
\* else, also when it starts with a label or an ordinal; a label line sets
\* its field to what follows the label; a numbered line changes the players
\* at most; a line under no rule changes nothing.
C22_OneRulePerLine ==
    [][(InLines /\ LineRead # <<>>) =>
          /\ OnlyField(RuleOf(LineRead))
          /\ RuleOf(LineRead) = "keyword" => extracted'.eventName = LineRead
          /\ \A rule \in {"day", "time", "location"} :
                RuleOf(LineRead) = rule =>
                   extracted'[FieldOf(rule)] = AfterLabel(LineRead, rule)
          /\ RuleOf(LineRead) = "none" => extracted' = extracted]_vars

\* parseEventFromMessage has read "Día: pichanga" and "3. Pipi": the event
\* name is the second line, no day is set and no player is added
C22_Witness ==
    /\ routine = "parseEventFromMessage"
    /\ msgLines = <<<<"D","í","a",":"," ","p","i","c","h","a","n","g","a">>, <<"3","."," ","P","i","p","i">>>>
    /\ lineNo = 3
    /\ extracted.eventName = <<"3","."," ","P","i","p","i">>
    /\ extracted.dayOfWeek = <<>>
    /\ extracted.players = <<>>

\* the text of a numbered line after its ordinal and the spaces that follow
AfterOrdinal(text) ==
    trimStart(From(text, (CHOOSE n \in 1..Len(text) :
                             /\ \A i \in 1..n : IsDigit(text[i])
                             /\ MatchesAt(text, <<".">>, n + 1)) + 2))

\* the text without a hyphen that it starts with
WithoutHyphen(text) ==
    IF startsWith(text, <<"-">>) THEN trimStart(Tail(text)) ELSE text

\* the text without its annotations, each an invisible marker followed by
\* "<", some text and ">"
RECURSIVE WithoutAnnotations(_)
WithoutAnnotations(text) ==
    IF AnnotationStarts(text) = {} THEN text
    ELSE WithoutAnnotations(StripEdited(text))

\* the token of a player line: what is left of it without the ordinal, the
\* optional hyphen and the annotations, trimmed
TokenOfLine(text) ==
    trim(WithoutAnnotations(WithoutHyphen(AfterOrdinal(text))))

Pushed(token) ==
    IF token = <<>> \/ token = <<"-">> THEN extracted.players
    ELSE Append(extracted.players, token)

\* C23: the turn of the loop at a player line pushes the text of the line
\* without the ordinal, the optional hyphen and every annotation, trimmed,
\* and pushes nothing when that text is empty or "-"; the players are never
\* empty tokens or "-", and they are in the order of the lines.
C23_PlayerTokens ==
    /\ [][(InLines /\ LineRead # <<>> /\ RuleOf(LineRead) = "player") =>
             extracted'.players = Pushed(TokenOfLine(LineRead))]_vars
    /\ [](pcExtract # "idle" =>
             \A i \in 1..Len(extracted.players) :
                 extracted.players[i] \notin {<<>>, <<"-">>})

\* the line read has no annotation, or has one and parseEventFromMessage
\* reads it
OneAnnotationAtMost ==
    \/ AnnotationStarts(LineRead) = {}
    \/ /\ routine = "parseEventFromMessage"
       /\ AnnotationStarts(StripEdited(LineRead)) = {}

\* the tokens pushed for the lines with one annotation at most
PlayerTokensOfOneAnnotation ==
    [][(InLines /\ LineRead # <<>> /\ RuleOf(LineRead) = "player"
          /\ OneAnnotationAtMost) =>
             extracted'.players = Pushed(TokenOfLine(LineRead))]_vars
=============================================================================
